---- MODULE Spec2Model ----
(***************************************************************************)
(* Authentication / authorization core of the Wood ERP backend:            *)
(* the authorization middleware (backend/main.py), the auth router         *)
(* (backend/routers/auth.py) and the user administration it depends on     *)
(* (backend/routers/admin.py), over the tables of backend/models.py.       *)
(*                                                                         *)
(* Time is counted in minutes.  A nullable column is a set: {} is NULL,    *)
(* {v} is the value v.  A session's token is the number of the session     *)
(* (secrets.token_urlsafe never repeats); a reset secret is the number of  *)
(* the reset token it was issued for.                                      *)
(***************************************************************************)
EXTENDS Naturals, Integers, Sequences, FiniteSets, TLC

VARIABLES
    now,            \* the server clock (utcnow), minutes
    ticks,          \* how often the clock has advanced
    users,          \* table users: username -> row
    roles,          \* table roles (with role_permissions): name -> row
    sessions,       \* table user_sessions: id -> row
    reset_tokens,   \* table password_reset_tokens: id -> row
    resp,           \* the last request handled at the current instant and its response
    hist,           \* observed login history per user (consecutive 401s, time of the locking one)
    rp,             \* POST /reset-password requests handled concurrently: position and locals
    redeemed,       \* reset secrets for which a 200 was answered (observed)
    lg,             \* POST /login requests handled concurrently: position and locals
    permissions,    \* table permissions: id -> row
    time,           \* time.time(), seconds
    _rate_limit_store,  \* the process-wide dictionary of check_rate_limit: key -> timestamps
    rl              \* calls of check_rate_limit by the worker threads: position and locals

rate_vars == <<time, _rate_limit_store, rl>>

vars == <<now, ticks, users, roles, sessions, reset_tokens, resp, hist, rp, redeemed, lg, permissions, rate_vars>>

----------------------------------------------------------------------------
\* Bounds of the model.

MaxSessions == 2
MaxResetTokens == 2
MaxTicks == 1
MaxAttempts == 6
MaxRequests == 2
MaxLogins == 2
MaxCalls == 2
MaxTime == 2

\* Constants of the program.

LOCKOUT_THRESHOLD == 5
LOCKOUT_MINUTES == 15
RESET_TOKEN_MINUTES == 60
SESSION_DAYS == 1
REMEMBER_ME_DAYS == 7
MIN_PASSWORD_LENGTH == 8

MinutesPerDay == 24 * 60

Null == {}
Some(v) == {v}

----------------------------------------------------------------------------
\* Strings.

StartsWith(s, prefix) ==
    /\ Len(s) >= Len(prefix)
    /\ SubSeq(s, 1, Len(prefix)) = prefix

----------------------------------------------------------------------------
\* Password hashing of routers/auth.py: "salt$sha256(salt + password)".
\* A stored hash is a record; form "legacy" is salt$hex, form "bcrypt" is the
\* passlib string "$2b$..." that security.hash_password writes.

SHA256(text) == <<"sha256", text>>

Salt == "5f"

hash_password(password) ==
    [form |-> "legacy", salt |-> Salt, digest |-> SHA256(Salt \o password)]

\* stored_hash.split("$", 1): a bcrypt string begins with "$", so its salt part
\* is "" and its hash part is "2b$12$..."; no sha256 hex digest equals that.
verify_password(password, stored_hash) ==
    IF stored_hash.form = "legacy"
    THEN SHA256(stored_hash.salt \o password) = stored_hash.digest
    ELSE FALSE

_hash_token(token) == SHA256(token)

\* hash_password of security.py (passlib bcrypt), the one routers/admin.py imports.
security_hash_password(password) ==
    [form |-> "bcrypt", salt |-> "", digest |-> <<"bcrypt", password>>]

is_bcrypt_hash(stored_hash) == stored_hash.form = "bcrypt"

\* verify_password of security.py: both stored forms.
security_verify_password(password, stored_hash) ==
    IF ~is_bcrypt_hash(stored_hash)
    THEN SHA256(stored_hash.salt \o password) = stored_hash.digest
    ELSE stored_hash.digest = <<"bcrypt", password>>

should_rehash_to_bcrypt(stored_hash) == ~is_bcrypt_hash(stored_hash)

\* hash_password of routers/auth.py with the salt it drew (secrets.token_hex).
hash_password_salted(password, salt) ==
    [form |-> "legacy", salt |-> salt, digest |-> SHA256(salt \o password)]

Salts == {Salt, "a0"}
HashFunctions == {"auth", "security"}

\* The hash function a router calls: routers/auth.py its own, routers/admin.py
\* the one of security.py.
hash_with(hash_fn, password, salt) ==
    IF hash_fn = "auth" THEN hash_password_salted(password, salt)
    ELSE security_hash_password(password)

\* The verify function a caller runs.
verify_with(verify_fn, password, stored_hash) ==
    IF verify_fn = "auth" THEN verify_password(password, stored_hash)
    ELSE security_verify_password(password, stored_hash)

----------------------------------------------------------------------------
\* Authorization middleware of main.py.

PUBLIC_PATH_PREFIXES ==
    { "/api/auth/login", "/api/auth/verify", "/api/health",
      "/api/auth/forgot-password", "/api/auth/reset-password",
      "/api/admin/bootstrap-owner" }

MODULE_PREFIX_MAP ==
    << <<"/api/products", "products">>,
       <<"/api/inventory", "inventory">>,
       <<"/api/sales-orders", "sales_orders">>,
       <<"/api/customers", "customers">>,
       <<"/api/quotes", "quotes">>,
       <<"/api/suppliers", "suppliers">>,
       <<"/api/purchasing", "purchasing">>,
       <<"/api/invoices", "invoicing">>,
       <<"/api/payments", "payments">>,
       <<"/api/work-orders", "work_orders">>,
       <<"/api/expenses", "expenses">>,
       <<"/api/projects", "projects">>,
       <<"/api/support-tickets", "support_tickets">>,
       <<"/api/leads", "leads">>,
       <<"/api/warehousing", "warehousing">>,
       <<"/api/manufacturing", "manufacturing">>,
       <<"/api/quality", "quality">>,
       <<"/api/shipping", "shipping">>,
       <<"/api/returns", "returns">>,
       <<"/api/time-attendance", "time_attendance">>,
       <<"/api/hr", "hr">>,
       <<"/api/assets", "assets">>,
       <<"/api/reporting", "reporting">>,
       <<"/api/accounting", "accounting">>,
       <<"/api/production", "production">>,
       <<"/api/documents", "documents">>,
       <<"/api/payroll", "payroll">>,
       <<"/api/pos", "pos">>,
       <<"/api/tooling", "tooling">>,
       <<"/api/portal", "portal">>,
       <<"/api/settings", "settings">>,
       <<"/api/notifications", "notifications">>,
       <<"/api/backup", "backup">>,
       <<"/api/import", "import">> >>

\* (variant: PATCH is taken as an update)
_permission_from_method_with_patch(method) ==
    CASE method = "GET" -> Some("view")
      [] method = "POST" -> Some("create")
      [] method = "PUT" -> Some("update")
      [] method = "PATCH" -> Some("update")
      [] method = "DELETE" -> Some("delete")
      [] OTHER -> Null

\* The action of a method, NULL for any other method.
_permission_from_method(method) ==
    CASE method = "GET" -> Some("view")
      [] method = "POST" -> Some("create")
      [] method = "PUT" -> Some("update")
      [] method = "DELETE" -> Some("delete")
      [] OTHER -> Null

\* The permission code a request needs, or NULL.
_required_permission_for_path(path, method) ==
    IF StartsWith(path, "/api/admin/users") THEN Some("admin.manage_users")
    ELSE IF StartsWith(path, "/api/admin/roles") \/ StartsWith(path, "/api/admin/permissions")
    THEN Some("admin.manage_roles")
    ELSE IF StartsWith(path, "/api/admin/audit-logs") THEN Some("admin.view_audit")
    ELSE IF StartsWith(path, "/api/admin/settings") THEN Some("settings.manage")
    ELSE LET action == _permission_from_method(method)
             hits == { i \in DOMAIN MODULE_PREFIX_MAP : StartsWith(path, MODULE_PREFIX_MAP[i][1]) }
         IN  IF action = Null THEN Null
             ELSE IF hits = {} THEN Null
             ELSE LET first == CHOOSE i \in hits : \A j \in hits : i <= j
                  IN  { MODULE_PREFIX_MAP[first][2] \o "." \o a : a \in action }

\* The request's Authorization header is {} (absent, or not "Bearer ...") or
\* {t} for "Bearer t"; token 0 is the empty string of a bare "Bearer ".
_get_bearer_token(authorization) ==
    { t \in authorization : t # 0 }

\* (variant: the expiry is not compared)
gate_session_ignores_expiry(token) ==
    { sid \in DOMAIN sessions :
        /\ sessions[sid].session_token = token
        /\ sessions[sid].is_active }

\* The session row the middleware's query finds: token match, active, unexpired.
gate_session(token) ==
    { sid \in DOMAIN sessions :
        /\ sessions[sid].session_token = token
        /\ sessions[sid].is_active
        /\ sessions[sid].expires_at > now }

\* (variant: is_active of the user is not looked at)
gate_user_any(user_id) ==
    { u \in DOMAIN users : u = user_id }

\* The user row the middleware's query finds: id match and is_active.
gate_user(user_id) ==
    { u \in DOMAIN users : u = user_id /\ users[u].is_active }

\* (variant: is_active of the role is not looked at)
gate_perm_set_all_roles(u) ==
    UNION { roles[r].permissions : r \in { q \in users[u].roles : q \in DOMAIN roles } }

\* perm_set of the middleware: codes of the user's roles that are active.
gate_perm_set(u) ==
    UNION { roles[r].permissions : r \in { q \in users[u].roles : q \in DOMAIN roles /\ roles[q].is_active } }

Pass == [allow |-> TRUE, status |-> 200, detail |-> "call_next"]
Deny(status, detail) == [allow |-> FALSE, status |-> status, detail |-> detail]

\* (variant: the exception is swallowed and the request goes on)
UnhandledFailsOpen == [allow |-> TRUE, status |-> 200, detail |-> "call_next"]

\* An exception raised by a query is not caught by the middleware (try/finally):
\* it reaches global_exception_handler, which answers 500.
Unhandled == Deny(500, "Internal server error")

\* The paths and methods of the requests made.  The string tests of the
\* middleware are evaluated once per path and method and kept in tables.
RoutePaths ==
    { "/", "/api/health", "/api/healthz", "/api/auth/login", "/api/auth/verify",
      "/api/auth/forgot-password", "/api/auth/reset-password",
      "/api/admin/bootstrap-owner",
      "/api/auth/logout", "/api/auth/logout-all", "/api/auth/me", "/api/auth/change-password",
      "/api/auth/sessions/1",
      "/api/products", "/api/customers", "/api/customers/7", "/api/invoices/3",
      "/api/stats", "/api/admin/users/1", "/api/admin/roles/1", "/api/admin/permissions",
      "/api/admin/init-permissions", "/api/admin/init-roles", "/api/admin/init-admin" }

HttpMethods == { "GET", "POST", "PUT", "DELETE", "OPTIONS", "PATCH" }

\* path.startswith("/api/")
ApiPath == [path \in RoutePaths |-> StartsWith(path, "/api/")]

\* (variant: nothing is public)
PublicPathNone == [path \in RoutePaths |-> FALSE]

\* path.startswith(PUBLIC_PATH_PREFIXES)
PublicPath == [path \in RoutePaths |-> \E p \in PUBLIC_PATH_PREFIXES : StartsWith(path, p)]

RequiredPermission ==
    [path \in RoutePaths, method \in HttpMethods |-> _required_permission_for_path(path, method)]

PermissionDenied ==
    [path \in RoutePaths, method \in HttpMethods |->
        { "Permission denied: " \o c : c \in RequiredPermission[path, method] }]

\* The code the middleware derives for a request, computed for any path.
required_permission(path, method) ==
    /\ resp' = [ op |-> "required_permission", path |-> path, method |-> method,
                 required |-> _required_permission_for_path(path, method) ]
    /\ UNCHANGED <<now, ticks, users, roles, sessions, reset_tokens, hist, rp, redeemed, lg, permissions, rate_vars>>

\* store_error: "none", or the query that raises ("session", "user").
authz_middleware(method, path, authorization, store_error) ==
    IF ~ApiPath[path] THEN Pass
    ELSE IF method = "OPTIONS" THEN Pass
    ELSE IF PublicPath[path] THEN Pass
    ELSE LET token == _get_bearer_token(authorization) IN
    IF token = {} THEN Deny(401, "Not authenticated")
    ELSE IF store_error = "session" THEN Unhandled
    ELSE LET session == UNION { gate_session(t) : t \in token } IN
    IF session = {} THEN Deny(401, "Session expired or invalid")
    ELSE IF store_error = "user" THEN Unhandled
    ELSE LET user == UNION { gate_user(sessions[sid].user_id) : sid \in session } IN
    IF user = {} THEN Deny(401, "User not found or disabled")
    ELSE LET u == CHOOSE x \in user : TRUE
             required == RequiredPermission[path, method]
         IN  IF /\ required # Null
                /\ ~users[u].is_superuser
                /\ ~(required \subseteq gate_perm_set(u))
             THEN Deny(403, CHOOSE d \in PermissionDenied[path, method] : TRUE)
             ELSE Pass

----------------------------------------------------------------------------
\* The permission catalog of initialize_permissions (routers/admin.py).

modules ==
    << "products", "inventory", "sales_orders", "customers", "quotes",
       "invoicing", "payments", "suppliers", "purchasing", "work_orders",
       "expenses", "projects", "support_tickets", "leads", "warehousing",
       "manufacturing", "quality", "shipping", "returns", "time_attendance",
       "hr", "assets", "reporting", "admin", "accounting", "production",
       "documents", "payroll", "pos", "tooling", "portal", "settings",
       "notifications", "backup", "import" >>
\* (variant: no delete permissions are seeded)
standard_actions_without_delete == <<"view", "create", "update", "export">>

standard_actions == <<"view", "create", "update", "delete", "export">>
special_permissions ==
    << <<"accounting", "post_entries">>, <<"accounting", "close_period">>,
       <<"invoicing", "send">>, <<"payments", "process">>,
       <<"payroll", "process">>, <<"payroll", "approve">>,
       <<"inventory", "adjust">>, <<"work_orders", "start">>,
       <<"work_orders", "complete">>, <<"production", "schedule">>,
       <<"quality", "inspect">>, <<"shipping", "dispatch">>,
       <<"pos", "open_session">>, <<"pos", "close_session">>,
       <<"pos", "void_transaction">>,
       <<"admin", "manage_users">>, <<"admin", "manage_roles">>,
       <<"admin", "view_audit">>, <<"backup", "restore_db">>,
       <<"settings", "manage">>, <<"import", "execute">> >>

\* The modules and actions permission rows are made of here ("custom": one
\* created by hand through POST /api/admin/permissions).
PermissionModules == { modules[i] : i \in DOMAIN modules } \cup {"custom"}
PermissionActions ==
    { standard_actions[i] : i \in DOMAIN standard_actions }
    \cup { special_permissions[i][2] : i \in DOMAIN special_permissions }

\* code = f"{module}.{action}"
PermissionCode ==
    [ module \in PermissionModules, action \in PermissionActions |-> module \o "." \o action ]

\* name = f"{action.capitalize()} {module.replace('_', ' ').title()}", without
\* the capitals
PermissionName ==
    [ module \in PermissionModules, action \in PermissionActions |-> action \o " " \o module ]

\* name = f"{action.replace('_', ' ').title()} - {module.replace('_', ' ').title()}"
SpecialPermissionName ==
    [ module \in PermissionModules, action \in PermissionActions |-> action \o " - " \o module ]

PermissionRow(module, action) ==
    [ code |-> PermissionCode[module, action], module |-> module,
      name |-> PermissionName[module, action] ]

SpecialPermissionRow(module, action) ==
    [ code |-> PermissionCode[module, action], module |-> module,
      name |-> SpecialPermissionName[module, action] ]

\* The rows in the order the two loops visit them.
standard_permissions ==
    [ i \in 1..(Len(modules) * Len(standard_actions)) |->
        PermissionRow(modules[((i - 1) \div Len(standard_actions)) + 1],
                      standard_actions[((i - 1) % Len(standard_actions)) + 1]) ]

special_permission_rows ==
    [ i \in 1..Len(special_permissions) |->
        SpecialPermissionRow(special_permissions[i][1], special_permissions[i][2]) ]

\* Every code initialize_permissions looks up and creates when missing.
catalog_codes ==
    { standard_permissions[i].code : i \in DOMAIN standard_permissions }
    \cup { special_permission_rows[i].code : i \in DOMAIN special_permission_rows }

\* The tables of this model hold the rows of these modules only (and the
\* special permissions of admin and settings): the part of the catalog that
\* initialize_permissions seeds here.
SeededModules == {"products", "customers", "admin"}
SeededSpecialModules == {"admin", "settings"}

default_permissions ==
    SelectSeq(standard_permissions, LAMBDA row : row.module \in SeededModules)
    \o SelectSeq(special_permission_rows, LAMBDA row : row.module \in SeededSpecialModules)

\* db.query(models.Permission).all(), as the codes of the rows.
AllPermissions == { permissions[i].code : i \in DOMAIN permissions }

----------------------------------------------------------------------------
\* Permission checking of dependencies.py.

\* (variant: no shortcut for superusers)
get_user_permissions_of_roles(user) ==
    UNION { roles[r].permissions : r \in { q \in user.roles : q \in DOMAIN roles /\ roles[q].is_active } }

get_user_permissions(user) ==
    IF user.is_superuser THEN AllPermissions
    ELSE UNION { roles[r].permissions :
                   r \in { q \in user.roles : q \in DOMAIN roles /\ roles[q].is_active } }

check_permission(user, permission_code) ==
    IF user.is_superuser THEN TRUE
    ELSE permission_code \in get_user_permissions(user)

----------------------------------------------------------------------------
\* Rate limiting of dependencies.py: check_rate_limit on the process-wide
\* defaultdict(list).  RateLimiter is a synchronous dependency: the server runs
\* it in a worker thread, so calls overlap, and the interpreter may switch
\* threads between any two of the statements below.

\* The keys (client addresses) of the calls, and the limiter's settings.
RateKeys == {"10.0.0.1", "10.0.0.2"}
max_requests == 1
window_seconds == 2

\* [t for t in _rate_limit_store[key] if t > window_start]
rate_filtered(key, call_time) ==
    SelectSeq(_rate_limit_store[key], LAMBDA t : t > call_time - window_seconds)

\* time.time() moves on.
rate_tick ==
    /\ time < MaxTime
    /\ time' = time + 1
    /\ UNCHANGED <<now, ticks, users, roles, sessions, reset_tokens, resp, hist, rp, redeemed, lg, permissions,
                   _rate_limit_store, rl>>

\* now = time.time(); window_start = now - window_seconds.  alone: no other
\* call is under way when this one starts.
rate_begin(key) ==
    /\ Len(rl) < MaxCalls
    /\ rl' = Append(rl, [ key |-> key, now |-> time, pc |-> "filter", filtered |-> << >>,
                          result |-> FALSE,
                          alone |-> \A v \in DOMAIN rl : rl[v].pc = "done" ])
    /\ UNCHANGED <<now, ticks, users, roles, sessions, reset_tokens, resp, hist, rp, redeemed, lg, permissions,
                   time, _rate_limit_store>>

\* The list comprehension reads the list of the key.
rate_filter(w) ==
    /\ w \in DOMAIN rl
    /\ rl[w].pc = "filter"
    /\ rl' = [rl EXCEPT ![w].filtered = rate_filtered(rl[w].key, rl[w].now), ![w].pc = "assign"]
    /\ UNCHANGED <<now, ticks, users, roles, sessions, reset_tokens, resp, hist, rp, redeemed, lg, permissions,
                   time, _rate_limit_store>>

\* _rate_limit_store[key] = <the new list>
rate_assign(w) ==
    /\ w \in DOMAIN rl
    /\ rl[w].pc = "assign"
    /\ _rate_limit_store' = [_rate_limit_store EXCEPT ![rl[w].key] = rl[w].filtered]
    /\ rl' = [rl EXCEPT ![w].pc = "check"]
    /\ UNCHANGED <<now, ticks, users, roles, sessions, reset_tokens, resp, hist, rp, redeemed, lg, permissions,
                   time>>

\* (variant: one more entry than max_requests is tolerated)
rate_limited_late(key) == Len(_rate_limit_store[key]) > max_requests

\* len(_rate_limit_store[key]) >= max_requests
rate_limited(key) == Len(_rate_limit_store[key]) >= max_requests

\* if len(...) >= max_requests: return False
rate_check(w) ==
    /\ w \in DOMAIN rl
    /\ rl[w].pc = "check"
    /\ rl' = [rl EXCEPT ![w].pc = IF rate_limited(rl[w].key) THEN "done" ELSE "append"]
    /\ UNCHANGED <<now, ticks, users, roles, sessions, reset_tokens, resp, hist, rp, redeemed, lg, permissions,
                   time, _rate_limit_store>>

\* _rate_limit_store[key].append(now); return True
rate_append(w) ==
    /\ w \in DOMAIN rl
    /\ rl[w].pc = "append"
    /\ _rate_limit_store' = [_rate_limit_store EXCEPT ![rl[w].key] = Append(@, rl[w].now)]
    /\ rl' = [rl EXCEPT ![w].pc = "done", ![w].result = TRUE]
    /\ UNCHANGED <<now, ticks, users, roles, sessions, reset_tokens, resp, hist, rp, redeemed, lg, permissions,
                   time>>

----------------------------------------------------------------------------
\* The database at the start: a deployed system.  "owner" is the superuser
\* (bootstrap-owner, then a password reset), "alice" an ordinary user with the
\* roles Sales (active) and Archive (inactive); both passwords are stored in
\* the form routers/auth.py writes.

Usernames == {"alice", "owner"}
Email(u) == u \o "@localhost"
Passwords == {"password1", "password2", "short"}
PasswordLength == [p \in Passwords |-> Len(p)]
InitialPassword == "password1"

UserRow(u, superuser, role_names) ==
    [ email |-> Email(u),
      is_active |-> TRUE,
      is_superuser |-> superuser,
      password_hash |-> hash_password(InitialPassword),
      failed_login_attempts |-> 0,
      locked_until |-> Null,
      last_login |-> Null,
      must_change_password |-> FALSE,
      password_changed_at |-> Null,
      roles |-> role_names ]

RoleRow(active, codes) ==
    [ is_active |-> active, is_system |-> FALSE, permissions |-> codes ]

NoResponse == [op |-> "none"]

Init ==
    /\ now = 0
    /\ ticks = 0
    /\ users = [u \in Usernames |->
                  IF u = "owner" THEN UserRow(u, TRUE, {}) ELSE UserRow(u, FALSE, {"Sales", "Archive"})]
    /\ roles = [r \in {"Sales", "Archive"} |->
                  IF r = "Sales"
                  THEN RoleRow(TRUE, {"customers.view", "customers.create"})
                  ELSE RoleRow(FALSE, {"customers.delete"})]
    /\ sessions = << >>
    /\ reset_tokens = << >>
    /\ resp = NoResponse
    /\ hist = [u \in Usernames |-> [fails |-> 0, lock_at |-> Null]]
    /\ rp = << >>
    /\ redeemed = {}
    /\ lg = << >>
    /\ permissions = default_permissions
    /\ time = 0
    /\ _rate_limit_store = [key \in RateKeys |-> << >>]
    /\ rl = << >>

----------------------------------------------------------------------------
\* The clock.  It advances by the periods the program measures: the lockout
\* cooldown, the life of a reset token, the life of a session.

advance_clock(d) ==
    /\ ticks < MaxTicks
    /\ now' = now + d
    /\ ticks' = ticks + 1
    /\ resp' = NoResponse
    /\ UNCHANGED <<users, roles, sessions, reset_tokens, hist, rp, redeemed, lg, permissions, rate_vars>>

Tick == \E d \in { LOCKOUT_MINUTES, RESET_TOKEN_MINUTES, SESSION_DAYS * MinutesPerDay } : advance_clock(d)
TickDay == advance_clock(SESSION_DAYS * MinutesPerDay)
TickHour == advance_clock(RESET_TOKEN_MINUTES)
\* Within the cooldown, and to its end.
TickMinutes == \E d \in { LOCKOUT_MINUTES \div 3, LOCKOUT_MINUTES } : advance_clock(d)

----------------------------------------------------------------------------
\* POST /api/auth/login (public path: the middleware passes it on).

\* The user the query finds: username or email equal to the submitted name.
login_find_user(username) ==
    { u \in DOMAIN users : u = username \/ users[u].email = username }

\* (variant: the lockout is not looked at)
account_lock_ignored(row) == FALSE

\* (variant: still locked at the instant locked_until)
account_locked_inclusive(row) ==
    \E t \in row.locked_until : t >= now

\* locked_until and locked_until > now_utc
account_locked(row) ==
    \E t \in row.locked_until : t > now

\* (variant: locks one failure late)
record_failed_login_late(row) ==
    LET n == row.failed_login_attempts + 1
    IN  [row EXCEPT !.failed_login_attempts = n,
                    !.locked_until = IF n > LOCKOUT_THRESHOLD
                                     THEN Some(now + LOCKOUT_MINUTES)
                                     ELSE row.locked_until]

\* (variant: locks at the fifth failure only)
record_failed_login_at_threshold(row) ==
    LET n == row.failed_login_attempts + 1
    IN  [row EXCEPT !.failed_login_attempts = n,
                    !.locked_until = IF n = LOCKOUT_THRESHOLD
                                     THEN Some(now + LOCKOUT_MINUTES)
                                     ELSE row.locked_until]

\* A failed verification: count it, lock at the threshold.
record_failed_login(row) ==
    LET n == row.failed_login_attempts + 1
    IN  [row EXCEPT !.failed_login_attempts = n,
                    !.locked_until = IF n >= LOCKOUT_THRESHOLD
                                     THEN Some(now + LOCKOUT_MINUTES)
                                     ELSE row.locked_until]

\* (variant: leaves an expired lockout in place)
record_successful_login_keeps_lock(row) ==
    [row EXCEPT !.failed_login_attempts = 0,
                !.last_login = Some(now)]

\* A successful verification: reset the counter, clear the lockout.
record_successful_login(row) ==
    [row EXCEPT !.failed_login_attempts = 0,
                !.locked_until = Null,
                !.last_login = Some(now)]

\* The UserSession row login adds.
new_session(u, remember_me) ==
    [ user_id |-> u,
      session_token |-> Len(sessions) + 1,
      is_active |-> TRUE,
      expires_at |-> now + (IF remember_me THEN REMEMBER_ME_DAYS ELSE SESSION_DAYS) * MinutesPerDay,
      last_activity |-> now ]

\* What the login history shows after this attempt (401 = a failed attempt).
ObserveLogin(u, status) ==
    IF status = 401
    THEN [hist EXCEPT ![u] = [fails |-> @.fails + 1,
                              lock_at |-> IF @.fails + 1 >= 5 THEN Some(now) ELSE @.lock_at]]
    ELSE IF status = 200
    THEN [hist EXCEPT ![u] = [fails |-> 0, lock_at |-> Null]]
    ELSE hist

\* log_audit and the commit that carries its row.  audit_error: "none"; "add",
\* building or adding the AuditLog object raises (caught inside log_audit);
\* "flush", the INSERT of the row raises when the caller commits.
\* The table audit_logs is only ever appended to and no handler reads it: a
\* response records the rows its request added.
log_audit(user_id, action, status, audit_error) ==
    IF audit_error = "none"
    THEN << [user_id |-> user_id, action |-> action, status |-> status] >>
    ELSE << >>

\* The response, with what was true of the account when the request came in.
LoginResponse(u, status, detail, row, password, audit_error, audit) ==
    [ op |-> "login", user |-> u, password |-> password,
      status |-> status, detail |-> detail,
      password_ok |-> verify_password(password, row.password_hash),
      had_failures |-> row.failed_login_attempts > 0,
      had_lock |-> row.locked_until # Null,
      audit_error |-> audit_error, audit |-> audit ]

login(username, password, remember_me, audit_error) ==
    LET found == login_find_user(username) IN
    IF found = {}
    THEN \* the commit of the audit row is tried and a failure of it dropped
         /\ resp' = [ op |-> "login", user |-> Null, password |-> password, status |-> 401,
                      detail |-> "Invalid credentials", audit_error |-> audit_error,
                      audit |-> log_audit(Null, "login", "failed", audit_error) ]
         /\ UNCHANGED <<now, ticks, users, roles, sessions, reset_tokens, hist, rp, redeemed, lg, permissions, rate_vars>>
    ELSE \E u \in found :
         LET row == users[u] IN
         IF account_locked(row)
         THEN /\ resp' = LoginResponse(Some(u), 403, "Account is temporarily locked", row, password,
                                       audit_error, << >>)
              /\ UNCHANGED <<now, ticks, users, roles, sessions, reset_tokens, hist, rp, redeemed, lg, permissions, rate_vars>>
         ELSE IF ~row.is_active
         THEN /\ resp' = LoginResponse(Some(u), 403, "Account is disabled", row, password,
                                       audit_error, << >>)
              /\ UNCHANGED <<now, ticks, users, roles, sessions, reset_tokens, hist, rp, redeemed, lg, permissions, rate_vars>>
         ELSE IF ~verify_password(password, row.password_hash)
         THEN /\ row.failed_login_attempts < MaxAttempts
              /\ hist[u].fails < MaxAttempts
              /\ IF audit_error = "flush"
                 THEN /\ resp' = LoginResponse(Some(u), 500, "Database error", row, password,
                                               audit_error, << >>)
                      /\ UNCHANGED <<users, hist>>
                 ELSE /\ users' = [users EXCEPT ![u] = record_failed_login(row)]
                      /\ resp' = LoginResponse(Some(u), 401, "Invalid credentials", row, password,
                                               audit_error,
                                               log_audit(Some(u), "login", "failed", audit_error))
                      /\ hist' = ObserveLogin(u, 401)
              /\ UNCHANGED <<now, ticks, roles, sessions, reset_tokens, rp, redeemed, lg, permissions, rate_vars>>
         ELSE /\ Len(sessions) < MaxSessions
              /\ IF audit_error = "flush"
                 THEN /\ resp' = LoginResponse(Some(u), 500, "Database error", row, password,
                                               audit_error, << >>)
                      /\ UNCHANGED <<users, sessions, hist>>
                 ELSE /\ users' = [users EXCEPT ![u] = record_successful_login(row)]
                      /\ sessions' = Append(sessions, new_session(u, remember_me))
                      /\ resp' = LoginResponse(Some(u), 200, "access_token", row, password,
                                               audit_error,
                                               log_audit(Some(u), "login", "success", audit_error))
                      /\ hist' = ObserveLogin(u, 200)
              /\ UNCHANGED <<now, ticks, roles, reset_tokens, rp, redeemed, lg, permissions, rate_vars>>

\* POST /api/auth/login handled by the worker threads of the server, one
\* database session per request.  First the user query, the checks and the
\* password verification, with the new values set on the loaded object
\* (failed_login_attempts = loaded value + 1); then the flush of those values
\* and the commit.  The UPDATE writes the value computed from what was loaded.
login_read(username, password, remember_me) ==
    LET found == login_find_user(username) IN
    /\ Len(lg) < MaxLogins
    /\ IF found = {}
       THEN lg' = Append(lg, [ user |-> Null, pc |-> "done", status |-> 401,
                               detail |-> "Invalid credentials" ])
       ELSE \E u \in found :
            LET row == users[u] IN
            lg' = Append(lg,
                IF account_locked(row)
                THEN [ user |-> Some(u), pc |-> "done", status |-> 403,
                       detail |-> "Account is temporarily locked" ]
                ELSE IF ~row.is_active
                THEN [ user |-> Some(u), pc |-> "done", status |-> 403,
                       detail |-> "Account is disabled" ]
                ELSE IF ~verify_password(password, row.password_hash)
                THEN [ user |-> Some(u), pc |-> "write", status |-> 401,
                       detail |-> "Invalid credentials",
                       loaded |-> row, dirty |-> record_failed_login(row),
                       session |-> << >> ]
                ELSE [ user |-> Some(u), pc |-> "write", status |-> 200,
                       detail |-> "access_token",
                       loaded |-> row, dirty |-> record_successful_login(row),
                       session |-> << new_session(u, remember_me) >> ])
    /\ UNCHANGED <<now, ticks, users, roles, sessions, reset_tokens, resp, hist, rp, redeemed, permissions, rate_vars>>

\* The UPDATE of the flush: the attributes whose value differs from the loaded one.
flush_user(current, loaded, dirty) ==
    [ current EXCEPT
        !.failed_login_attempts =
            IF dirty.failed_login_attempts # loaded.failed_login_attempts
            THEN dirty.failed_login_attempts ELSE @,
        !.locked_until =
            IF dirty.locked_until # loaded.locked_until THEN dirty.locked_until ELSE @,
        !.last_login =
            IF dirty.last_login # loaded.last_login THEN dirty.last_login ELSE @ ]

login_write(w) ==
    /\ w \in DOMAIN lg
    /\ lg[w].pc = "write"
    /\ Len(sessions) + Len(lg[w].session) <= MaxSessions
    /\ \E u \in lg[w].user :
          /\ users' = [users EXCEPT ![u] = flush_user(@, lg[w].loaded, lg[w].dirty)]
          /\ hist' = ObserveLogin(u, lg[w].status)
    /\ sessions' = sessions \o [ i \in DOMAIN lg[w].session |->
                                   [lg[w].session[i] EXCEPT !.session_token = Len(sessions) + 1] ]
    /\ lg' = [lg EXCEPT ![w].pc = "done"]
    /\ UNCHANGED <<now, ticks, roles, reset_tokens, resp, rp, redeemed, permissions, rate_vars>>


\* The login requests made: alice signs in by username, the owner by email,
\* someone guesses the owner's password, someone tries an unknown name.
LoginAttempts ==
    { <<"alice", "password1">>, <<"owner@localhost", "password1">>,
      <<"owner@localhost", "password2">>, <<"nobody", "password1">> }

----------------------------------------------------------------------------
\* Any request to a business module or another route with no model of its own:
\* the middleware decides whether the route's handler runs.

request(method, path, authorization, store_error) ==
    LET gate == authz_middleware(method, path, authorization, store_error) IN
    /\ resp' = [ op |-> "request", method |-> method, path |-> path,
                 authorization |-> authorization, store_error |-> store_error,
                 status |-> gate.status, detail |-> gate.detail,
                 handler_ran |-> gate.allow ]
    /\ UNCHANGED <<now, ticks, users, roles, sessions, reset_tokens, hist, rp, redeemed, lg, permissions, rate_vars>>

\* The same for a request that also carries cookies: cookies is the value of
\* the cookie session_token (NULL when there is none).  The middleware takes
\* the token from _get_bearer_token, which reads the Authorization header.
request_with_cookies(method, path, authorization, cookies) ==
    LET gate == authz_middleware(method, path, authorization, "none") IN
    /\ resp' = [ op |-> "request", method |-> method, path |-> path,
                 authorization |-> authorization, cookies |-> cookies, store_error |-> "none",
                 status |-> gate.status, detail |-> gate.detail,
                 handler_ran |-> gate.allow ]
    /\ UNCHANGED <<now, ticks, users, roles, sessions, reset_tokens, hist, rp, redeemed, lg, permissions, rate_vars>>

\* The routes of routers/auth.py below /api/auth are protected by the middleware
\* (only login, verify, forgot-password and reset-password are public).  Their
\* handlers read the token as header.replace("Bearer ", "").
handler_token(authorization) == authorization

Rejected(op, authorization, gate) ==
    /\ resp' = [ op |-> op, authorization |-> authorization,
                 status |-> gate.status, detail |-> gate.detail ]
    /\ UNCHANGED <<now, ticks, users, roles, sessions, reset_tokens, hist, rp, redeemed, lg, permissions, rate_vars>>

\* The session row the handlers of logout, logout-all, change-password and
\* sessions look up: token match and is_active (expires_at is not compared).
active_session(token) ==
    { sid \in DOMAIN sessions :
        /\ sessions[sid].session_token = token
        /\ sessions[sid].is_active }

\* (variant: expires_at is not compared)
valid_session_ignores_expiry(token) ==
    { sid \in DOMAIN sessions :
        /\ sessions[sid].session_token = token
        /\ sessions[sid].is_active }

\* The session row /me and /verify look up: token match, active, unexpired.
valid_session(token) ==
    { sid \in DOMAIN sessions :
        /\ sessions[sid].session_token = token
        /\ sessions[sid].is_active
        /\ sessions[sid].expires_at > now }

\* POST /api/auth/logout
logout(authorization, audit_error) ==
    LET gate == authz_middleware("POST", "/api/auth/logout", authorization, "none")
        token == handler_token(authorization)
        session == UNION { active_session(t) : t \in token }
    IN  IF ~gate.allow THEN Rejected("logout", authorization, gate)
        ELSE IF token = {} \/ token = {0}
        THEN Rejected("logout", authorization, Deny(401, "No token provided"))
        ELSE IF session # {} /\ audit_error = "flush"
        THEN /\ resp' = [ op |-> "logout", authorization |-> authorization,
                          status |-> 500, detail |-> "Database error",
                          audit_error |-> audit_error, audit |-> << >> ]
             /\ UNCHANGED <<now, ticks, users, roles, sessions, reset_tokens, hist, rp, redeemed, lg, permissions, rate_vars>>
        ELSE /\ sessions' = [sid \in DOMAIN sessions |->
                               IF sid \in session
                               THEN [sessions[sid] EXCEPT !.is_active = FALSE]
                               ELSE sessions[sid]]
             /\ resp' = [ op |-> "logout", authorization |-> authorization,
                          status |-> 200, detail |-> "Logged out successfully",
                          audit_error |-> audit_error,
                          audit |-> IF session = {} THEN << >>
                                    ELSE log_audit({ sessions[sid].user_id : sid \in session },
                                                   "logout", "success", audit_error) ]
             /\ UNCHANGED <<now, ticks, users, roles, reset_tokens, hist, rp, redeemed, lg, permissions, rate_vars>>

\* (variant: the UPDATE has no filter on user_id)
revoke_all_unfiltered(user_id) ==
    [sid \in DOMAIN sessions |-> [sessions[sid] EXCEPT !.is_active = FALSE]]

\* The UPDATE of logout-all: every row of the session's user.
revoke_all(user_id) ==
    [sid \in DOMAIN sessions |->
        IF sessions[sid].user_id = user_id
        THEN [sessions[sid] EXCEPT !.is_active = FALSE]
        ELSE sessions[sid]]

\* POST /api/auth/logout-all
logout_all_sessions(authorization, audit_error) ==
    LET gate == authz_middleware("POST", "/api/auth/logout-all", authorization, "none")
        token == handler_token(authorization)
        session == UNION { active_session(t) : t \in token }
    IN  IF ~gate.allow THEN Rejected("logout_all", authorization, gate)
        ELSE IF session = {}
        THEN Rejected("logout_all", authorization, Deny(401, "Invalid session"))
        ELSE IF audit_error = "flush"
        THEN /\ resp' = [ op |-> "logout_all", authorization |-> authorization,
                          status |-> 500, detail |-> "Database error",
                          audit_error |-> audit_error, audit |-> << >> ]
             /\ UNCHANGED <<now, ticks, users, roles, sessions, reset_tokens, hist, rp, redeemed, lg, permissions, rate_vars>>
        ELSE \E sid \in session :
             /\ sessions' = revoke_all(sessions[sid].user_id)
             /\ resp' = [ op |-> "logout_all", authorization |-> authorization,
                          status |-> 200, detail |-> "All sessions invalidated",
                          audit_error |-> audit_error,
                          audit |-> log_audit(Some(sessions[sid].user_id), "logout_all",
                                              "success", audit_error) ]
             /\ UNCHANGED <<now, ticks, users, roles, reset_tokens, hist, rp, redeemed, lg, permissions, rate_vars>>

\* POST /api/auth/change-password
change_password(authorization, current_password, new_password, audit_error) ==
    LET gate == authz_middleware("POST", "/api/auth/change-password", authorization, "none")
        token == handler_token(authorization)
        session == UNION { active_session(t) : t \in token }
    IN  IF ~gate.allow THEN Rejected("change_password", authorization, gate)
        ELSE IF session = {}
        THEN Rejected("change_password", authorization, Deny(401, "Not authenticated"))
        ELSE \E sid \in session :
             LET u == sessions[sid].user_id IN
             IF u \notin DOMAIN users
             THEN Rejected("change_password", authorization, Deny(401, "User not found"))
             ELSE IF ~verify_password(current_password, users[u].password_hash)
             THEN Rejected("change_password", authorization,
                           Deny(400, "Current password is incorrect"))
             ELSE IF PasswordLength[new_password] < MIN_PASSWORD_LENGTH
             THEN Rejected("change_password", authorization,
                           Deny(400, "Password must be at least 8 characters"))
             ELSE IF audit_error = "flush"
             THEN /\ resp' = [ op |-> "change_password", authorization |-> authorization,
                               user |-> u, new_password |-> new_password,
                               status |-> 500, detail |-> "Database error",
                               audit_error |-> audit_error, audit |-> << >> ]
                  /\ UNCHANGED <<now, ticks, users, roles, sessions, reset_tokens, hist, rp, redeemed, lg, permissions, rate_vars>>
             ELSE /\ users' = [users EXCEPT ![u] =
                                 [@ EXCEPT !.password_hash = hash_password(new_password),
                                           !.password_changed_at = Some(now),
                                           !.must_change_password = FALSE]]
                  /\ resp' = [ op |-> "change_password", authorization |-> authorization,
                               user |-> u, new_password |-> new_password,
                               status |-> 200, detail |-> "Password changed successfully",
                               audit_error |-> audit_error,
                               audit |-> log_audit(Some(u), "change_password", "success", audit_error) ]
                  /\ UNCHANGED <<now, ticks, roles, sessions, reset_tokens, hist, rp, redeemed, lg, permissions, rate_vars>>

\* (variant: the target is looked up by id alone)
revoke_target_of_any_user(session_id, user_id) ==
    { sid \in DOMAIN sessions : sid = session_id }

\* target_session of revoke_session: id match and the caller's user_id.
revoke_target(session_id, user_id) ==
    { sid \in DOMAIN sessions : sid = session_id /\ sessions[sid].user_id = user_id }

\* (variant: the flag is flipped)
revoke_flips(sid) ==
    [sessions EXCEPT ![sid].is_active = ~@]

\* target_session.is_active = False
revoke(sid) ==
    [sessions EXCEPT ![sid].is_active = FALSE]

\* DELETE /api/auth/sessions/{session_id}
revoke_session(authorization, session_id) ==
    LET gate == authz_middleware("DELETE", "/api/auth/sessions/1", authorization, "none")
        token == handler_token(authorization)
        current_session == UNION { active_session(t) : t \in token }
    IN  IF ~gate.allow THEN Rejected("revoke_session", authorization, gate)
        ELSE IF current_session = {}
        THEN Rejected("revoke_session", authorization, Deny(401, "Not authenticated"))
        ELSE \E cur \in current_session :
             LET target_session == revoke_target(session_id, sessions[cur].user_id) IN
             IF target_session = {}
             THEN /\ resp' = [ op |-> "revoke_session", authorization |-> authorization,
                               session_id |-> session_id, caller |-> sessions[cur].user_id,
                               status |-> 404, detail |-> "Session not found" ]
                  /\ UNCHANGED <<now, ticks, users, roles, sessions, reset_tokens, hist, rp, redeemed, lg, permissions, rate_vars>>
             ELSE \E sid \in target_session :
                  /\ sessions' = revoke(sid)
                  /\ resp' = [ op |-> "revoke_session", authorization |-> authorization,
                               session_id |-> session_id, caller |-> sessions[cur].user_id,
                               target_was_active |-> sessions[sid].is_active,
                               status |-> 200, detail |-> "Session revoked" ]
                  /\ UNCHANGED <<now, ticks, users, roles, reset_tokens, hist, rp, redeemed, lg, permissions, rate_vars>>

\* GET /api/auth/me
\* (variant: only active roles are flattened)
me_permissions_of_active_roles(u) ==
    UNION { roles[r].permissions : r \in { q \in users[u].roles : q \in DOMAIN roles /\ roles[q].is_active } }

\* The permissions list of the /me response: the codes of all the user's roles.
me_permissions(u) ==
    UNION { roles[r].permissions : r \in { q \in users[u].roles : q \in DOMAIN roles } }

get_current_user(authorization) ==
    LET gate == authz_middleware("GET", "/api/auth/me", authorization, "none")
        token == handler_token(authorization)
        session == UNION { valid_session(t) : t \in token }
    IN  IF ~gate.allow THEN Rejected("me", authorization, gate)
        ELSE IF token = {} \/ token = {0}
        THEN Rejected("me", authorization, Deny(401, "Not authenticated"))
        ELSE IF session = {}
        THEN Rejected("me", authorization, Deny(401, "Session expired or invalid"))
        ELSE \E sid \in session :
             LET u == sessions[sid].user_id IN
             /\ sessions' = [sessions EXCEPT ![sid].last_activity = now]
             /\ resp' = IF u \notin DOMAIN users \/ ~users[u].is_active
                        THEN [ op |-> "me", authorization |-> authorization,
                               status |-> 401, detail |-> "User not found or disabled" ]
                        ELSE [ op |-> "me", authorization |-> authorization,
                               status |-> 200, detail |-> u,
                               permissions |-> me_permissions(u) ]
             /\ UNCHANGED <<now, ticks, users, roles, reset_tokens, hist, rp, redeemed, lg, permissions, rate_vars>>

\* POST /api/auth/verify (public path).  store_error: "none", or "session",
\* the query raises SQLAlchemyError.
verify_token(authorization, store_error) ==
    LET token == handler_token(authorization)
        session == UNION { valid_session(t) : t \in token }
    IN  /\ resp' = [ op |-> "verify", authorization |-> authorization,
                     store_error |-> store_error, status |-> 200,
                     valid |-> ( /\ token # {} /\ token # {0}
                                 /\ store_error = "none"
                                 /\ session # {} ),
                     detail |-> IF token = {} \/ token = {0} THEN "No token provided"
                                ELSE IF store_error # "none" THEN "Error verifying token"
                                ELSE IF session = {} THEN "Token expired or invalid"
                                ELSE "expires_at" ]
        /\ UNCHANGED <<now, ticks, users, roles, sessions, reset_tokens, hist, rp, redeemed, lg, permissions, rate_vars>>

----------------------------------------------------------------------------
\* PUT /api/admin/users/{user_id} of routers/admin.py (permission
\* admin.manage_users).  fields is the set of fields the body sets, as
\* <<name, value>> pairs, among is_active, is_superuser and role_ids.

\* An HTTPException raised by a handler for the record it was asked about.
Refused(op, authorization, target, answer) ==
    /\ resp' = [ op |-> op, authorization |-> authorization, target |-> target,
                 status |-> answer.status, detail |-> answer.detail ]
    /\ UNCHANGED <<now, ticks, users, roles, sessions, reset_tokens, hist, rp, redeemed, lg, permissions, rate_vars>>

\* (variant: no role is treated as a system role)
is_system_role_never(role_id) == FALSE

\* db_role.is_system
is_system_role(role_id) == roles[role_id].is_system

\* db_user.is_superuser
is_superuser(user_id) == users[user_id].is_superuser

field_value(fields, name, old) ==
    IF \E f \in fields : f[1] = name
    THEN (CHOOSE f \in fields : f[1] = name)[2]
    ELSE old

update_user(authorization, user_id, fields) ==
    LET gate == authz_middleware("PUT", "/api/admin/users/1", authorization, "none") IN
    IF ~gate.allow THEN Rejected("update_user", authorization, gate)
    ELSE IF user_id \notin DOMAIN users
    THEN Rejected("update_user", authorization, Deny(404, "User not found"))
    ELSE IF \E other \in DOMAIN users \ {user_id} :
                 users[other].email = field_value(fields, "email", users[user_id].email)
    THEN Rejected("update_user", authorization, Deny(500, "Error updating user"))
    ELSE /\ users' = [users EXCEPT ![user_id] =
                        [@ EXCEPT !.roles = { r \in field_value(fields, "role_ids", @) : r \in DOMAIN roles },
                                  !.email = field_value(fields, "email", @),
                                  !.is_active = field_value(fields, "is_active", @),
                                  !.is_superuser = field_value(fields, "is_superuser", @)]]
         /\ resp' = [ op |-> "update_user", authorization |-> authorization,
                      status |-> 200, detail |-> user_id ]
         /\ UNCHANGED <<now, ticks, roles, sessions, reset_tokens, hist, rp, redeemed, lg, permissions, rate_vars>>

\* PUT /api/admin/roles/{role_id} (permission admin.manage_roles); fields
\* among is_active and permission_ids.
update_role(authorization, role_id, fields) ==
    LET gate == authz_middleware("PUT", "/api/admin/roles/1", authorization, "none") IN
    IF ~gate.allow THEN Rejected("update_role", authorization, gate)
    ELSE IF role_id \notin DOMAIN roles
    THEN Rejected("update_role", authorization, Deny(404, "Role not found"))
    ELSE IF is_system_role(role_id)
    THEN Refused("update_role", authorization, role_id, Deny(400, "Cannot modify system role"))
    ELSE /\ roles' = [roles EXCEPT ![role_id] =
                        [@ EXCEPT !.permissions = field_value(fields, "permission_ids", @),
                                  !.is_active = field_value(fields, "is_active", @)]]
         /\ resp' = [ op |-> "update_role", authorization |-> authorization,
                      status |-> 200, detail |-> role_id ]
         /\ UNCHANGED <<now, ticks, users, sessions, reset_tokens, hist, rp, redeemed, lg, permissions, rate_vars>>

\* DELETE /api/admin/roles/{role_id}.  The rows of user_roles and
\* role_permissions go with the role (ON DELETE CASCADE).
delete_role(authorization, role_id) ==
    LET gate == authz_middleware("DELETE", "/api/admin/roles/1", authorization, "none") IN
    IF ~gate.allow THEN Rejected("delete_role", authorization, gate)
    ELSE IF role_id \notin DOMAIN roles
    THEN Refused("delete_role", authorization, role_id, Deny(404, "Role not found"))
    ELSE IF is_system_role(role_id)
    THEN Refused("delete_role", authorization, role_id, Deny(400, "Cannot delete system role"))
    ELSE /\ roles' = [r \in DOMAIN roles \ {role_id} |-> roles[r]]
         /\ users' = [u \in DOMAIN users |-> [users[u] EXCEPT !.roles = @ \ {role_id}]]
         /\ resp' = [ op |-> "delete_role", authorization |-> authorization, target |-> role_id,
                      status |-> 204, detail |-> "" ]
         /\ UNCHANGED <<now, ticks, sessions, reset_tokens, hist, rp, redeemed, lg, permissions, rate_vars>>

\* What is left at the id of a deleted row: nothing a query matches.
DeletedSession ==
    [ user_id |-> "", session_token |-> 0, is_active |-> FALSE, expires_at |-> 0,
      last_activity |-> 0 ]
DeletedResetToken ==
    [ user_id |-> "", token_hash |-> <<"deleted">>, expires_at |-> 0, used_at |-> Null ]

\* DELETE /api/admin/users/{user_id}.  The user's sessions (cascade of the
\* relationship), reset tokens and role assignments (ON DELETE CASCADE) go
\* with the user.
delete_user(authorization, user_id) ==
    LET gate == authz_middleware("DELETE", "/api/admin/users/1", authorization, "none") IN
    IF ~gate.allow THEN Rejected("delete_user", authorization, gate)
    ELSE IF user_id \notin DOMAIN users
    THEN Refused("delete_user", authorization, user_id, Deny(404, "User not found"))
    ELSE IF is_superuser(user_id)
    THEN Refused("delete_user", authorization, user_id, Deny(400, "Cannot delete superuser"))
    ELSE /\ users' = [u \in DOMAIN users \ {user_id} |-> users[u]]
         /\ sessions' = [sid \in DOMAIN sessions |->
                           IF sessions[sid].user_id = user_id THEN DeletedSession
                           ELSE sessions[sid]]
         /\ reset_tokens' = [i \in DOMAIN reset_tokens |->
                               IF reset_tokens[i].user_id = user_id THEN DeletedResetToken
                               ELSE reset_tokens[i]]
         /\ resp' = [ op |-> "delete_user", authorization |-> authorization, target |-> user_id,
                      status |-> 204, detail |-> "" ]
         /\ UNCHANGED <<now, ticks, roles, hist, rp, redeemed, lg, permissions, rate_vars>>

----------------------------------------------------------------------------
\* Password reset (public paths).  A raw token is a number: 0 is the empty
\* string, k >= 1 the k-th value drawn by secrets.token_urlsafe(32), taken to
\* be distinct from every earlier one.

EmailInputs ==
    { "alice@localhost", " Alice@Localhost ", "Alice@localhost", "owner@localhost", "nobody@localhost" }

\* (payload.email or "").strip().lower()
normalize_email ==
    [e \in EmailInputs |->
        IF e \in {" Alice@Localhost ", "Alice@localhost"} THEN "alice@localhost" ELSE e]

\* (variant: a failure of the mail transport reaches the client)
forgot_password_response_mail_error(mail_error) ==
    IF mail_error
    THEN [status |-> 500, detail |-> "Internal server error"]
    ELSE [status |-> 200, detail |-> "If that email exists, a reset link has been sent."]

\* generic; an exception of _send_gmail_reset_email is caught and logged.
forgot_password_response(mail_error) ==
    [status |-> 200, detail |-> "If that email exists, a reset link has been sent."]

new_reset_token(u) ==
    [ user_id |-> u,
      token_hash |-> _hash_token(Len(reset_tokens) + 1),
      expires_at |-> now + RESET_TOKEN_MINUTES,
      used_at |-> Null ]

\* POST /api/auth/forgot-password: the same answer whatever the email.
forgot_password(email, mail_error) ==
    LET found == { u \in DOMAIN users :
                     users[u].email = normalize_email[email] /\ users[u].is_active }
        answer == forgot_password_response(found # {} /\ mail_error)
    IN
    /\ resp' = [ op |-> "forgot_password", email |-> email, mail_error |-> mail_error,
                 status |-> answer.status, detail |-> answer.detail ]
    /\ IF found = {}
       THEN UNCHANGED reset_tokens
       ELSE /\ Len(reset_tokens) < MaxResetTokens
            /\ \E u \in found : reset_tokens' = Append(reset_tokens, new_reset_token(u))
    /\ UNCHANGED <<now, ticks, users, roles, sessions, hist, rp, redeemed, lg, permissions, rate_vars>>

\* The row found by token_hash (.first(): none or one).
reset_lookup(token) ==
    { i \in DOMAIN reset_tokens : reset_tokens[i].token_hash = _hash_token(token) }

\* (variant: used_at is not looked at)
reset_token_invalid_ignores_used(prt) ==
    \/ prt = {}
    \/ \E i \in prt : reset_tokens[i].expires_at <= now

\* (not prt) or (prt_used_at is not None) or (prt_expires <= now_utc)
reset_token_invalid(prt) ==
    \/ prt = {}
    \/ \E i \in prt : reset_tokens[i].used_at # Null
    \/ \E i \in prt : reset_tokens[i].expires_at <= now

\* The checks of reset_password, in the order of the code, on what it reads.
reset_checks(token, new_password) ==
    IF token = 0 THEN Deny(400, "Invalid token")
    ELSE IF PasswordLength[new_password] < MIN_PASSWORD_LENGTH
    THEN Deny(400, "Password must be at least 8 characters")
    ELSE IF reset_token_invalid(reset_lookup(token))
    THEN Deny(400, "Token is invalid or expired")
    ELSE IF \A i \in reset_lookup(token) :
               reset_tokens[i].user_id \notin DOMAIN users \/ ~users[reset_tokens[i].user_id].is_active
    THEN Deny(400, "User not found or disabled")
    ELSE [allow |-> TRUE, status |-> 200, detail |-> "Password reset successfully"]

\* (variant: every token of the user is marked used)
reset_commit_uses_all(prt, new_password, now_utc) ==
    /\ users' = [u \in DOMAIN users |->
                   IF \E i \in prt : reset_tokens[i].user_id = u
                   THEN [users[u] EXCEPT !.password_hash = hash_password(new_password),
                                         !.must_change_password = FALSE,
                                         !.password_changed_at = Some(now_utc)]
                   ELSE users[u]]
    /\ reset_tokens' = [i \in DOMAIN reset_tokens |->
                          IF \E j \in prt : reset_tokens[j].user_id = reset_tokens[i].user_id
                          THEN [reset_tokens[i] EXCEPT !.used_at = Some(now_utc)]
                          ELSE reset_tokens[i]]

\* The writes of reset_password and their commit: UPDATEs by primary key.
reset_commit(prt, new_password, now_utc) ==
    /\ users' = [u \in DOMAIN users |->
                   IF \E i \in prt : reset_tokens[i].user_id = u
                   THEN [users[u] EXCEPT !.password_hash = hash_password(new_password),
                                         !.must_change_password = FALSE,
                                         !.password_changed_at = Some(now_utc)]
                   ELSE users[u]]
    /\ reset_tokens' = [i \in DOMAIN reset_tokens |->
                          IF i \in prt THEN [reset_tokens[i] EXCEPT !.used_at = Some(now_utc)]
                          ELSE reset_tokens[i]]

\* (variant: the password written before the failure stays)
rollback_keeps_password(prt, new_password, now_utc) ==
    /\ users' = [u \in DOMAIN users |->
                   IF \E i \in prt : reset_tokens[i].user_id = u
                   THEN [users[u] EXCEPT !.password_hash = hash_password(new_password)]
                   ELSE users[u]]
    /\ UNCHANGED reset_tokens

\* db.rollback() after a SQLAlchemyError: nothing of the transaction stays.
rollback(prt, new_password, now_utc) ==
    UNCHANGED <<users, reset_tokens>>

\* What a request answers when the store raises: the checks made before the
\* first query keep their answers ("query": a SELECT raises, "commit": the
\* commit raises).
reset_store_outcome(token, new_password, store_error) ==
    LET out == reset_checks(token, new_password) IN
    IF store_error = "none" THEN out
    ELSE IF token = 0 \/ PasswordLength[new_password] < MIN_PASSWORD_LENGTH THEN out
    ELSE IF store_error = "query" THEN Deny(500, "Database error")
    ELSE IF out.allow THEN Deny(500, "Database error")
    ELSE out

\* POST /api/auth/reset-password, handled with no other request in between.
reset_password(token, new_password, store_error) ==
    LET out == reset_checks(token, new_password)
        answer == reset_store_outcome(token, new_password, store_error)
    IN
    /\ resp' = [ op |-> "reset_password", token |-> token, new_password |-> new_password,
                 store_error |-> store_error,
                 status |-> answer.status, detail |-> answer.detail ]
    /\ IF answer.allow
       THEN /\ reset_commit(reset_lookup(token), new_password, now)
            /\ redeemed' = redeemed \cup {token}
       ELSE IF out.allow /\ store_error = "commit"
       THEN /\ rollback(reset_lookup(token), new_password, now)
            /\ UNCHANGED redeemed
       ELSE UNCHANGED <<users, reset_tokens, redeemed>>
    /\ UNCHANGED <<now, ticks, roles, sessions, hist, rp, lg, permissions, rate_vars>>

----------------------------------------------------------------------------
\* Passwords set by the administration (routers/admin.py, security.py).

BootstrapPassword == "WoodERP!2026-Owner"

\* _ensure_admin_role_with_all_permissions: the role Administrator, created
\* if missing, with every row of the permissions table (codes).
ensure_admin_role_with(codes) ==
    [r \in DOMAIN roles \cup {"Administrator"} |->
        IF r = "Administrator"
        THEN IF r \in DOMAIN roles
             THEN [roles[r] EXCEPT !.permissions = codes]
             ELSE [is_active |-> TRUE, is_system |-> TRUE, permissions |-> codes]
        ELSE roles[r]]

ensure_admin_role == ensure_admin_role_with(AllPermissions)

\* (variant: rows are inserted without looking for an existing one)
permission_exists_never(code) == FALSE

\* existing = db.query(Permission).filter(Permission.code == code).first()
permission_exists(code) == code \in AllPermissions

\* The unique indexes of the table permissions (code, name): would adding
\* these rows violate one of them?
permissions_integrity_error(rows) ==
    \/ \E i \in DOMAIN rows, j \in DOMAIN permissions :
          rows[i].code = permissions[j].code \/ rows[i].name = permissions[j].name
    \/ \E i, j \in DOMAIN rows :
          i # j /\ (rows[i].code = rows[j].code \/ rows[i].name = rows[j].name)

\* The rows initialize_permissions adds: those of the catalog it does not find.
permissions_to_create ==
    SelectSeq(default_permissions, LAMBDA row : ~permission_exists(row.code))

\* The table permissions after initialize_permissions (unchanged when the
\* commit fails and is rolled back).
initialized_permissions ==
    IF permissions_integrity_error(permissions_to_create) THEN permissions
    ELSE permissions \o permissions_to_create

\* POST /api/admin/init-permissions (no permission code is mapped to the path:
\* any authenticated user).
initialize_permissions(authorization) ==
    LET gate == authz_middleware("POST", "/api/admin/init-permissions", authorization, "none") IN
    IF ~gate.allow THEN Rejected("init_permissions", authorization, gate)
    ELSE /\ permissions' = initialized_permissions
         /\ resp' = IF permissions_integrity_error(permissions_to_create)
                    THEN [ op |-> "init_permissions", authorization |-> authorization,
                           status |-> 500, detail |-> "Error initializing permissions",
                           created |-> 0 ]
                    ELSE [ op |-> "init_permissions", authorization |-> authorization,
                           status |-> 200, detail |-> "Initialized permissions",
                           created |-> Len(permissions_to_create) ]
         /\ UNCHANGED <<now, ticks, users, roles, sessions, reset_tokens, hist, rp, redeemed, lg, rate_vars>>

\* default_roles of initialize_roles: name, and which permissions it gets
\* ("all", "view", or the modules).
default_roles ==
    << [name |-> "Administrator", grant |-> "all", modules |-> {}],
       [name |-> "Manager", grant |-> "modules",
        modules |-> {"products", "inventory", "sales_orders", "customers", "quotes",
                     "invoicing", "payments", "suppliers", "purchasing", "work_orders",
                     "projects", "reporting"}],
       [name |-> "Sales", grant |-> "modules",
        modules |-> {"customers", "quotes", "sales_orders", "invoicing", "leads"}],
       [name |-> "Warehouse", grant |-> "modules",
        modules |-> {"inventory", "warehousing", "shipping", "returns"}],
       [name |-> "Production", grant |-> "modules",
        modules |-> {"work_orders", "manufacturing", "production", "quality", "tooling"}],
       [name |-> "Accounting", grant |-> "modules",
        modules |-> {"accounting", "invoicing", "payments", "expenses", "payroll"}],
       [name |-> "HR", grant |-> "modules",
        modules |-> {"hr", "time_attendance", "payroll"}],
       [name |-> "Viewer", grant |-> "view", modules |-> {}] >>

\* Permission.code.like("%.view")
like_view(code) ==
    \E module \in PermissionModules : code = PermissionCode[module, "view"]

\* The permissions a new default role is given, from the table as it is.
default_role_permissions(role_data) ==
    IF role_data.grant = "all" THEN AllPermissions
    ELSE IF role_data.grant = "view"
    THEN { permissions[i].code : i \in { j \in DOMAIN permissions : like_view(permissions[j].code) } }
    ELSE { permissions[i].code :
             i \in { j \in DOMAIN permissions : permissions[j].module \in role_data.modules } }

\* existing_role = db.query(Role).filter(Role.name == name).first()
role_exists(name) == name \in DOMAIN roles

roles_to_create ==
    { i \in DOMAIN default_roles : ~role_exists(default_roles[i].name) }

\* The unique index of the table roles (name).
roles_integrity_error(to_create) ==
    \E i \in to_create : default_roles[i].name \in DOMAIN roles

\* POST /api/admin/init-roles (any authenticated user).
initialize_roles(authorization) ==
    LET gate == authz_middleware("POST", "/api/admin/init-roles", authorization, "none") IN
    IF ~gate.allow THEN Rejected("init_roles", authorization, gate)
    ELSE IF roles_integrity_error(roles_to_create)
    THEN /\ resp' = [ op |-> "init_roles", authorization |-> authorization,
                      status |-> 500, detail |-> "Error initializing roles", created |-> 0 ]
         /\ UNCHANGED <<now, ticks, users, roles, sessions, reset_tokens, hist, rp, redeemed, lg, permissions, rate_vars>>
    ELSE /\ roles' = [ r \in DOMAIN roles \cup { default_roles[i].name : i \in roles_to_create } |->
                         IF r \in DOMAIN roles THEN roles[r]
                         ELSE LET i == CHOOSE k \in roles_to_create : default_roles[k].name = r
                              IN  [ is_active |-> TRUE, is_system |-> TRUE,
                                    permissions |-> default_role_permissions(default_roles[i]) ] ]
         /\ resp' = [ op |-> "init_roles", authorization |-> authorization,
                      status |-> 200, detail |-> "Initialized roles",
                      created |-> Cardinality(roles_to_create) ]
         /\ UNCHANGED <<now, ticks, users, sessions, reset_tokens, hist, rp, redeemed, lg, permissions, rate_vars>>

\* The unique indexes of the table users (username, email).
users_integrity_error(username, email) ==
    \/ username \in DOMAIN users
    \/ \E u \in DOMAIN users : users[u].email = email

\* The row of a user the seeding creates: a superuser with the role
\* Administrator who must change the password.
seeded_user(u, password) ==
    [ UserRow(u, TRUE, {"Administrator"}) EXCEPT
        !.password_hash = security_hash_password(password),
        !.must_change_password = TRUE ]

AdminPassword == "admin123"

\* POST /api/admin/init-admin (any authenticated user).
initialize_admin_user(authorization) ==
    LET gate == authz_middleware("POST", "/api/admin/init-admin", authorization, "none") IN
    IF ~gate.allow THEN Rejected("init_admin", authorization, gate)
    ELSE IF "admin" \in DOMAIN users
    THEN /\ resp' = [ op |-> "init_admin", authorization |-> authorization,
                      status |-> 200, detail |-> "Admin user already exists", created |-> 0 ]
         /\ UNCHANGED <<now, ticks, users, roles, sessions, reset_tokens, hist, rp, redeemed, lg, permissions, rate_vars>>
    ELSE IF users_integrity_error("admin", Email("admin"))
    THEN /\ resp' = [ op |-> "init_admin", authorization |-> authorization,
                      status |-> 500, detail |-> "Error creating admin user", created |-> 0 ]
         /\ UNCHANGED <<now, ticks, users, roles, sessions, reset_tokens, hist, rp, redeemed, lg, permissions, rate_vars>>
    ELSE /\ roles' = IF role_exists("Administrator") THEN roles ELSE ensure_admin_role
         /\ users' = [ u \in DOMAIN users \cup {"admin"} |->
                         IF u = "admin" THEN seeded_user("admin", AdminPassword) ELSE users[u] ]
         /\ resp' = [ op |-> "init_admin", authorization |-> authorization,
                      status |-> 200, detail |-> "Admin user created successfully", created |-> 1 ]
         /\ UNCHANGED <<now, ticks, sessions, reset_tokens, hist, rp, redeemed, lg, permissions, rate_vars>>

\* POST /api/admin/permissions (permission admin.manage_roles)
create_permission(authorization, module, action) ==
    LET gate == authz_middleware("POST", "/api/admin/permissions", authorization, "none")
        row == PermissionRow(module, action)
    IN  IF ~gate.allow THEN Rejected("create_permission", authorization, gate)
        ELSE IF permission_exists(row.code)
        THEN Refused("create_permission", authorization, row.code,
                     Deny(400, "Permission code already exists"))
        ELSE IF permissions_integrity_error(<<row>>)
        THEN Refused("create_permission", authorization, row.code,
                     Deny(500, "Error creating permission"))
        ELSE /\ permissions' = Append(permissions, row)
             /\ resp' = [ op |-> "create_permission", authorization |-> authorization,
                          target |-> row.code, status |-> 201, detail |-> "" ]
             /\ UNCHANGED <<now, ticks, users, roles, sessions, reset_tokens, hist, rp, redeemed, lg, rate_vars>>

\* POST /api/admin/bootstrap-owner (public path).
bootstrap_owner_admin(reset_password_flag) ==
    IF "owner" \in DOMAIN users
    THEN /\ resp' = [ op |-> "bootstrap_owner", reset_password |-> reset_password_flag,
                      status |-> 200,
                      detail |-> IF reset_password_flag THEN "Owner admin password was reset"
                                 ELSE "Owner admin already exists" ]
         /\ IF reset_password_flag
            THEN /\ users' = [users EXCEPT !["owner"] =
                                [@ EXCEPT !.password_hash = security_hash_password(BootstrapPassword),
                                          !.is_active = TRUE,
                                          !.is_superuser = TRUE,
                                          !.must_change_password = TRUE,
                                          !.password_changed_at = Some(now),
                                          !.roles = {"Administrator"}]]
                 /\ roles' = ensure_admin_role
            ELSE UNCHANGED <<users, roles>>
         /\ UNCHANGED <<now, ticks, sessions, reset_tokens, hist, rp, redeemed, lg, permissions, rate_vars>>
    ELSE \* initialize_permissions commits on its own before the owner is added
         LET seeded == IF Len(permissions) = 0 THEN initialized_permissions ELSE permissions
             codes == { seeded[i].code : i \in DOMAIN seeded }
         IN  /\ permissions' = seeded
             /\ IF users_integrity_error("owner", Email("owner"))
                THEN /\ resp' = [ op |-> "bootstrap_owner", reset_password |-> reset_password_flag,
                                  status |-> 500, detail |-> "Error creating owner admin user" ]
                     /\ UNCHANGED <<users, roles>>
                ELSE /\ roles' = ensure_admin_role_with(codes)
                     /\ users' = [ u \in DOMAIN users \cup {"owner"} |->
                                     IF u = "owner"
                                     THEN [ seeded_user("owner", BootstrapPassword) EXCEPT
                                              !.password_changed_at = Some(now) ]
                                     ELSE users[u] ]
                     /\ resp' = [ op |-> "bootstrap_owner", reset_password |-> reset_password_flag,
                                  status |-> 200, detail |-> "Owner admin created successfully" ]
             /\ UNCHANGED <<now, ticks, sessions, reset_tokens, hist, rp, redeemed, lg, rate_vars>>

\* POST /api/admin/users/{user_id}/reset-password (permission admin.manage_users)
reset_user_password(authorization, user_id, new_password) ==
    LET gate == authz_middleware("POST", "/api/admin/users/1", authorization, "none") IN
    IF ~gate.allow THEN Rejected("reset_user_password", authorization, gate)
    ELSE IF user_id \notin DOMAIN users
    THEN Rejected("reset_user_password", authorization, Deny(404, "User not found"))
    ELSE IF PasswordLength[new_password] < MIN_PASSWORD_LENGTH
    THEN Rejected("reset_user_password", authorization,
                  Deny(400, "Password must be at least 8 characters"))
    ELSE /\ users' = [users EXCEPT ![user_id] =
                        [@ EXCEPT !.password_hash = security_hash_password(new_password),
                                  !.must_change_password = TRUE,
                                  !.password_changed_at = Some(now)]]
         /\ resp' = [ op |-> "reset_user_password", authorization |-> authorization,
                      user |-> user_id, new_password |-> new_password,
                      status |-> 200, detail |-> "Password reset successfully" ]
         /\ UNCHANGED <<now, ticks, roles, sessions, reset_tokens, hist, rp, redeemed, lg, permissions, rate_vars>>

\* POST /api/auth/reset-password handled by the worker threads of the server
\* (a plain def endpoint, one database session per request): first the checks
\* and the two SELECTs, then the writes and the commit.  Nothing is locked
\* between the two and the UPDATEs carry no condition on used_at.
reset_password_read(token, new_password) ==
    LET out == reset_checks(token, new_password) IN
    /\ Len(rp) < MaxRequests
    /\ rp' = Append(rp, [ token |-> token, new_password |-> new_password,
                          pc |-> IF out.allow THEN "write" ELSE "done",
                          prt |-> reset_lookup(token), now_utc |-> now,
                          status |-> out.status, detail |-> out.detail ])
    /\ resp' = IF out.allow THEN resp
               ELSE [ op |-> "reset_password", token |-> token, new_password |-> new_password,
                      status |-> out.status, detail |-> out.detail ]
    /\ UNCHANGED <<now, ticks, users, roles, sessions, reset_tokens, hist, redeemed, lg, permissions, rate_vars>>

reset_password_write(w) ==
    /\ w \in DOMAIN rp
    /\ rp[w].pc = "write"
    /\ reset_commit(rp[w].prt, rp[w].new_password, rp[w].now_utc)
    /\ rp' = [rp EXCEPT ![w].pc = "done"]
    /\ resp' = [ op |-> "reset_password", token |-> rp[w].token, new_password |-> rp[w].new_password,
                 status |-> rp[w].status, detail |-> rp[w].detail ]
    /\ redeemed' = redeemed \cup {rp[w].token}
    /\ UNCHANGED <<now, ticks, roles, sessions, hist, lg, permissions, rate_vars>>

----------------------------------------------------------------------------
\* The requests made.  Authorization headers: none, a bare "Bearer ", every
\* token issued so far and one that was never issued.

\* A password is stored by one router and later checked by another:
\* hash_fn(hashed) is what is stored, verify_fn(password, stored) the check.
hash_then_verify(hash_fn, verify_fn, salt, hashed, password) ==
    LET stored_hash == hash_with(hash_fn, hashed, salt) IN
    /\ resp' = [ op |-> "verify_password", hash_fn |-> hash_fn, verify_fn |-> verify_fn,
                 hashed |-> hashed, password |-> password, stored_hash |-> stored_hash,
                 result |-> verify_with(verify_fn, password, stored_hash) ]
    /\ UNCHANGED <<now, ticks, users, roles, sessions, reset_tokens, hist, rp, redeemed, lg, permissions, rate_vars>>

HasherPasswords == Passwords \cup {BootstrapPassword, ""}
HashThenVerify ==
    \E hash_fn \in HashFunctions, verify_fn \in HashFunctions, salt \in Salts,
       hashed \in HasherPasswords, password \in HasherPasswords :
        hash_then_verify(hash_fn, verify_fn, salt, hashed, password)

\* A handler that depends on PermissionChecker(code): what get_user_permissions
\* and check_permission give for the user of the session.
permission_checker(u, permission_code) ==
    /\ u \in DOMAIN users
    /\ resp' = [ op |-> "check_permission", user |-> u, permission_code |-> permission_code,
                 is_superuser |-> users[u].is_superuser,
                 roles |-> users[u].roles,
                 resolve |-> get_user_permissions(users[u]),
                 result |-> check_permission(users[u], permission_code) ]
    /\ UNCHANGED <<now, ticks, users, roles, sessions, reset_tokens, hist, rp, redeemed, lg, permissions, rate_vars>>

Headers == {Null, Some(0)} \cup { Some(t) : t \in 1..(MaxSessions + 1) }
TokenHeaders == { Some(t) : t \in 1..(MaxSessions + 1) }

CheckedCodes == {"customers.view", "customers.delete", "admin.manage_users", "products.edit"}
PermissionCheck ==
    \E u \in Usernames, permission_code \in CheckedCodes : permission_checker(u, permission_code)
SetSuperuser ==
    \E h \in TokenHeaders, superuser \in BOOLEAN :
        update_user(h, "alice", { <<"is_superuser", superuser>> })

Login ==
    \E a \in LoginAttempts, remember_me \in BOOLEAN :
        login(a[1], a[2], remember_me, "none")
SignIn ==
    \E username \in {"alice", "owner@localhost"}, remember_me \in BOOLEAN :
        login(username, InitialPassword, remember_me, "none")
Logout == \E h \in Headers : logout(h, "none")
LogoutAll == \E h \in Headers : logout_all_sessions(h, "none")
LoginPassword ==
    \E username \in {"alice", "owner@localhost"},
       password \in {InitialPassword, "password2", BootstrapPassword} :
        login(username, password, FALSE, "none")
AuditErrors == {"none", "add", "flush"}
LoginAudit ==
    \E a \in LoginAttempts, audit_error \in AuditErrors : login(a[1], a[2], FALSE, audit_error)
LogoutAudit == \E h \in TokenHeaders, audit_error \in AuditErrors : logout(h, audit_error)
LogoutAllAudit ==
    \E h \in TokenHeaders, audit_error \in AuditErrors : logout_all_sessions(h, audit_error)
ChangePassword ==
    \E h \in TokenHeaders, new_password \in {"password2", "short"}, audit_error \in AuditErrors :
        change_password(h, InitialPassword, new_password, audit_error)
GetMe == \E h \in Headers : get_current_user(h)
Verify == \E h \in Headers : verify_token(h, "none")
VerifyStore == \E h \in Headers, store_error \in {"none", "session"} : verify_token(h, store_error)
ViewProducts == \E h \in TokenHeaders : request("GET", "/api/products", h, "none")
\* Requests to every mapped prefix, to a path below it, to the administrative
\* paths and to paths that are not mapped.
MappedPaths ==
    { MODULE_PREFIX_MAP[i][1] : i \in DOMAIN MODULE_PREFIX_MAP }
    \cup { MODULE_PREFIX_MAP[i][1] \o "/7" : i \in DOMAIN MODULE_PREFIX_MAP }
    \cup { "/api/admin/users", "/api/admin/users/1", "/api/admin/roles/1",
           "/api/admin/permissions", "/api/admin/audit-logs", "/api/admin/settings",
           "/api/admin/init-permissions", "/api/stats" }
RequiredPermissionFor ==
    \E path \in MappedPaths, method \in HttpMethods : required_permission(path, method)
\* Requests with a session token to a route that needs no permission code and
\* to one that does.
SessionRequest ==
    \E path \in {"/api/stats", "/api/products"}, h \in TokenHeaders :
        request("GET", path, h, "none")
\* Requests by every method to routes no code is mapped to and to module routes.
AnyMethodRequest ==
    \E method \in HttpMethods,
       path \in { "/api/admin/init-permissions", "/api/admin/init-roles", "/api/admin/init-admin",
                  "/api/stats", "/api/auth/me", "/api/auth/logout", "/api/products",
                  "/api/customers/7" },
       h \in TokenHeaders :
        request(method, path, h, "none")
\* The seeding endpoints, called with the token of the first session.
\* Calls of the rate limiter for either key, each statement by any thread.
RateBegin == \E key \in RateKeys : rate_begin(key)
RateFilter == \E w \in 1..MaxCalls : rate_filter(w)
RateAssign == \E w \in 1..MaxCalls : rate_assign(w)
RateCheck == \E w \in 1..MaxCalls : rate_check(w)
RateAppend == \E w \in 1..MaxCalls : rate_append(w)
InitPermissions == initialize_permissions(Some(1))
InitRoles == initialize_roles(Some(1))
InitAdmin == initialize_admin_user(Some(1))
CreatePermission == create_permission(Some(1), "custom", "approve")
\* The owner's logins with the first password and with the one a reset or a
\* change sets, and the owner's change of password.
OwnerLogin ==
    \E password \in {InitialPassword, "password2"} :
        login("owner@localhost", password, FALSE, "none")
OwnerChangePassword == change_password(Some(1), InitialPassword, "password2", "none")
BootstrapReset == bootstrap_owner_admin(TRUE)
OwnerResetAny ==
    \E token \in 1..MaxResetTokens, new_password \in {"password2", "password1"} :
        reset_password(token, new_password, "none")
TickLockout == advance_clock(LOCKOUT_MINUTES)
\* The owner's way in after bootstrap-owner: a reset link, a new password, a login.
OwnerForgot == forgot_password("owner@localhost", FALSE)
OwnerReset == reset_password(1, "password2", "none")
OwnerSignIn == login("owner@localhost", "password2", FALSE, "none")
UpdateRole ==
    \E h \in TokenHeaders, role_id \in {"Administrator", "Archive"},
       fields \in { { <<"is_active", FALSE>> }, { <<"permission_ids", {}>> } } :
        update_role(h, role_id, fields)
DeleteRole ==
    \E h \in TokenHeaders, role_id \in {"Administrator", "Archive"} : delete_role(h, role_id)
DeleteUser ==
    \E h \in TokenHeaders, user_id \in Usernames : delete_user(h, user_id)
RevokeSession ==
    \E h \in TokenHeaders, session_id \in 1..(MaxSessions + 1) : revoke_session(h, session_id)
\* The requests put to the middleware.  Without a token: every public prefix,
\* a path that only begins like one, protected paths, a path outside /api/ and
\* a preflight.  With a token: one module route by every method, other routes
\* by GET, and requests during which a query raises.
GatePaths ==
    { "/", "/api/health", "/api/healthz", "/api/auth/login", "/api/auth/verify",
      "/api/auth/forgot-password", "/api/auth/reset-password", "/api/admin/bootstrap-owner",
      "/api/auth/me", "/api/products", "/api/customers/7", "/api/stats" }
TokenPaths ==
    { "/api/health", "/api/auth/me", "/api/products", "/api/invoices/3",
      "/api/stats", "/api/admin/users/1" }
GateRequests ==
    ({"GET"} \X GatePaths \X {Null} \X {"none"})
    \cup ({"OPTIONS"} \X {"/api/products"} \X {Null} \X {"none"})
    \cup ({"GET"} \X {"/api/products"} \X {Some(0)} \X {"none"})
    \cup (HttpMethods \X {"/api/customers/7"} \X TokenHeaders \X {"none"})
    \cup ({"GET"} \X TokenPaths \X TokenHeaders \X {"none"})
    \cup ({"GET"} \X {"/api/customers/7"} \X TokenHeaders \X {"session", "user"})

Request == \E r \in GateRequests : request(r[1], r[2], r[3], r[4])
CookieRequest ==
    \E method \in {"GET", "POST"},
       path \in {"/api/health", "/api/auth/me", "/api/products", "/api/customers/7"},
       authorization \in {Null} \cup TokenHeaders, cookies \in {Null} \cup TokenHeaders :
        request_with_cookies(method, path, authorization, cookies)
SetUserActive ==
    \E h \in TokenHeaders, u \in Usernames, active \in BOOLEAN :
        update_user(h, u, { <<"is_active", active>> })

SetUserRoles ==
    \E h \in TokenHeaders, role_ids \in { {}, {"Sales", "Archive"} } :
        update_user(h, "alice", { <<"role_ids", role_ids>> })
DisableAlice ==
    \E h \in TokenHeaders : update_user(h, "alice", { <<"is_active", FALSE>> })
SetRoleActive ==
    \E h \in TokenHeaders, active \in BOOLEAN :
        update_role(h, "Archive", { <<"is_active", active>> })
\* Reset secrets: the empty one, those issued and one never issued.
Secrets == 0..(MaxResetTokens + 1)
LoginRead ==
    \E a \in LoginAttempts : login_read(a[1], a[2], FALSE)
LoginWrite == \E w \in 1..MaxLogins : login_write(w)
ForgotPassword ==
    \E email \in {"alice@localhost", " Alice@Localhost ", "owner@localhost", "nobody@localhost"} :
        forgot_password(email, FALSE)
ForgotPasswordMail ==
    \E email \in EmailInputs, mail_error \in BOOLEAN : forgot_password(email, mail_error)
SetUserEmail ==
    \E h \in TokenHeaders, email \in {"Alice@localhost", "owner@localhost"} :
        update_user(h, "alice", { <<"email", email>> })
ResetPassword ==
    \E token \in Secrets, new_password \in Passwords : reset_password(token, new_password, "none")
ResetPasswordStore ==
    \E token \in Secrets, new_password \in {"password2", "short"},
       store_error \in {"none", "query", "commit"} :
        reset_password(token, new_password, store_error)
BootstrapOwner == \E reset_password_flag \in BOOLEAN : bootstrap_owner_admin(reset_password_flag)
AdminResetPassword ==
    \E h \in TokenHeaders, new_password \in {"password2", "short"} :
        reset_user_password(h, "alice", new_password)
ResetPasswordRead ==
    \E token \in Secrets, new_password \in Passwords : reset_password_read(token, new_password)
ResetPasswordWrite == \E w \in 1..MaxRequests : reset_password_write(w)
SignInForADay ==
    \E username \in {"alice", "owner@localhost"} : login(username, InitialPassword, FALSE, "none")
SignInOwner == login("owner@localhost", InitialPassword, FALSE, "none")

\* The whole system.
Next ==
    \/ Tick
    \/ Login
    \/ Logout
    \/ LogoutAll
    \/ GetMe
    \/ Verify
    \/ Request
    \/ SetUserActive
    \/ SetUserRoles
    \/ SetRoleActive
    \/ ForgotPassword
    \/ ResetPassword
    \/ ResetPasswordRead
    \/ ResetPasswordWrite
    \/ LoginRead
    \/ LoginWrite
    \/ ForgotPasswordMail
    \/ SetUserEmail
    \/ ResetPasswordStore
    \/ BootstrapOwner
    \/ AdminResetPassword
    \/ LoginAudit
    \/ LogoutAudit
    \/ LogoutAllAudit
    \/ ChangePassword
    \/ LoginPassword
    \/ SignInOwner
    \/ HashThenVerify
    \/ PermissionCheck
    \/ SetSuperuser
    \/ CookieRequest
    \/ RevokeSession
    \/ UpdateRole
    \/ DeleteRole
    \/ DeleteUser
    \/ VerifyStore
    \/ InitPermissions
    \/ InitRoles
    \/ InitAdmin
    \/ CreatePermission
    \/ OwnerForgot
    \/ OwnerReset
    \/ OwnerSignIn
    \/ RequiredPermissionFor
    \/ SessionRequest
    \/ OwnerLogin
    \/ OwnerChangePassword
    \/ BootstrapReset
    \/ TickLockout
    \/ AnyMethodRequest
    \/ OwnerResetAny
    \/ rate_tick
    \/ RateBegin
    \/ RateFilter
    \/ RateAssign
    \/ RateCheck
    \/ RateAppend

Spec == Init /\ [][Next]_vars

\* Login, lockout and the requests of the signed-in users.
NextLockout ==
    \/ TickMinutes
    \/ Login
    \/ ViewProducts

SpecLockout == Init /\ [][NextLockout]_vars

\* The life of sessions.
NextSession ==
    \/ TickDay
    \/ SignInForADay
    \/ Logout
    \/ LogoutAll
    \/ GetMe
    \/ Verify
    \/ ViewProducts
    \/ DisableAlice

SpecSession == Init /\ [][NextSession]_vars

\* The middleware over every kind of request, and the administration that
\* changes what it reads.
NextGate ==
    \/ TickDay
    \/ SignInForADay
    \/ DisableAlice
    \/ SetUserRoles
    \/ SetRoleActive
    \/ Request

SpecGate == Init /\ [][NextGate]_vars

\* Password reset, one request at a time.
NextReset ==
    \/ TickHour
    \/ ForgotPassword
    \/ ResetPassword

SpecReset == Init /\ [][NextReset]_vars

\* Password reset with requests handled concurrently.
NextResetRace ==
    \/ TickHour
    \/ ForgotPassword
    \/ ResetPasswordRead
    \/ ResetPasswordWrite

SpecResetRace == Init /\ [][NextResetRace]_vars

\* Login with requests handled concurrently.
NextLoginRace ==
    \/ TickMinutes
    \/ LoginRead
    \/ LoginWrite

SpecLoginRace == Init /\ [][NextLoginRace]_vars

\* Requests for a reset link, for accounts as the administration leaves them.
NextForgot ==
    \/ TickHour
    \/ SignInOwner
    \/ DisableAlice
    \/ SetUserEmail
    \/ ForgotPasswordMail

SpecForgot == Init /\ [][NextForgot]_vars

\* Password reset against a store that can fail, for an account told to
\* change its password.
NextResetStore ==
    \/ TickHour
    \/ BootstrapOwner
    \/ ForgotPassword
    \/ ResetPasswordStore

SpecResetStore == Init /\ [][NextResetStore]_vars

\* The operations that are to be audited, with an audit table that can fail.
NextAudit ==
    \/ LoginAudit
    \/ LogoutAudit
    \/ LogoutAllAudit
    \/ ChangePassword
    \/ DisableAlice

SpecAudit == Init /\ [][NextAudit]_vars

\* Every way a stored password changes, and logins with the passwords set.
NextPassword ==
    \/ LoginPassword
    \/ ChangePassword
    \/ AdminResetPassword
    \/ BootstrapOwner

SpecPassword == Init /\ [][NextPassword]_vars

\* The password hasher on its own: every stored form against every check.
NextHasher == HashThenVerify

SpecHasher == Init /\ [][NextHasher]_vars

\* Permission checks for users as the administration sets them up.
NextPermissions ==
    \/ SignInOwner
    \/ SetUserRoles
    \/ SetRoleActive
    \/ SetSuperuser
    \/ PermissionCheck

SpecPermissions == Init /\ [][NextPermissions]_vars

\* Browser flows: the token in the header, in the cookie, in both or in neither.
NextCookie ==
    \/ SignInForADay
    \/ DisableAlice
    \/ CookieRequest

SpecCookie == Init /\ [][NextCookie]_vars

\* Everything that writes to a session row.
NextRevoke ==
    \/ TickDay
    \/ SignInForADay
    \/ Logout
    \/ LogoutAll
    \/ RevokeSession
    \/ GetMe
    \/ ViewProducts

SpecRevoke == Init /\ [][NextRevoke]_vars

\* The administration of roles and users, system roles and superusers among them.
NextProtected ==
    \/ SignInForADay
    \/ BootstrapOwner
    \/ UpdateRole
    \/ DeleteRole
    \/ DeleteUser

SpecProtected == Init /\ [][NextProtected]_vars

\* Token verification over the life of sessions, with a store that can fail.
NextVerify ==
    \/ TickDay
    \/ SignInForADay
    \/ Logout
    \/ DisableAlice
    \/ VerifyStore

SpecVerify == Init /\ [][NextVerify]_vars

\* The failure counter and the lockout of one account over failed and
\* successful logins, the passing of the lockout, and every way its password
\* is set.
NextCounter ==
    \/ TickLockout
    \/ OwnerLogin
    \/ OwnerForgot
    \/ OwnerReset
    \/ OwnerChangePassword
    \/ BootstrapReset

SpecCounter == Init /\ [][NextCounter]_vars

\* The rate limiter called by the worker threads, one call after another or
\* several at once.
NextRate ==
    \/ rate_tick
    \/ RateBegin
    \/ RateFilter
    \/ RateAssign
    \/ RateCheck
    \/ RateAppend

SpecRate == Init /\ [][NextRate]_vars

\* Several reset tokens of one user, redeemed in any order, between logins
\* and changes of password.
NextTokens ==
    \/ OwnerForgot
    \/ OwnerResetAny
    \/ OwnerLogin
    \/ OwnerChangePassword

SpecTokens == Init /\ [][NextTokens]_vars

\* Requests of users with and without roles to routes with and without a code.
NextUnmapped ==
    \/ SignInForADay
    \/ SetUserRoles
    \/ AnyMethodRequest

SpecUnmapped == Init /\ [][NextUnmapped]_vars

\* What /me reports while roles are assigned, emptied and switched on and off.
NextMe ==
    \/ SignInForADay
    \/ SetUserRoles
    \/ SetRoleActive
    \/ UpdateRole
    \/ GetMe

SpecMe == Init /\ [][NextMe]_vars

\* Users deactivated, reactivated and deleted while they hold sessions.
NextDeactivate ==
    \/ SignInForADay
    \/ SetUserActive
    \/ DeleteUser
    \/ SessionRequest

SpecDeactivate == Init /\ [][NextDeactivate]_vars

\* The static mapping from path and method to permission code.
NextCatalog == RequiredPermissionFor

SpecCatalog == Init /\ [][NextCatalog]_vars

\* A new installation: empty tables, then the seeding endpoints in any order.
InitEmpty ==
    /\ now = 0
    /\ ticks = 0
    /\ users = << >>
    /\ roles = << >>
    /\ sessions = << >>
    /\ reset_tokens = << >>
    /\ resp = NoResponse
    /\ hist = [u \in Usernames |-> [fails |-> 0, lock_at |-> Null]]
    /\ rp = << >>
    /\ redeemed = {}
    /\ lg = << >>
    /\ permissions = << >>
    /\ time = 0
    /\ _rate_limit_store = [key \in RateKeys |-> << >>]
    /\ rl = << >>

NextSeed ==
    \/ BootstrapOwner
    \/ OwnerForgot
    \/ OwnerReset
    \/ OwnerSignIn
    \/ InitPermissions
    \/ InitRoles
    \/ InitAdmin
    \/ CreatePermission

SpecSeed == InitEmpty /\ [][NextSeed]_vars

----------------------------------------------------------------------------
\* Properties.

\* C2: once the login history of a user shows 5 consecutive failed attempts
\* (401 answers, no successful login in between), every login attempt for
\* that user made before the time of the locking failure + 15 minutes is
\* answered 403 "Account is temporarily locked" and adds no session, whether
\* or not its password is correct.
C2_LockedAfterFiveFailures ==
    [][ \A u \in Usernames :
          ( /\ hist[u].fails >= 5
            /\ \E t \in hist[u].lock_at : now' < t + 15
            /\ resp'.op = "login"
            /\ resp'.user = {u} )
          => ( /\ resp'.status = 403
               /\ resp'.detail = "Account is temporarily locked"
               /\ sessions' = sessions ) ]_vars

\* A correct password was refused because of the lockout.
C2_Witness ==
    /\ resp.op = "login"
    /\ resp.status = 403
    /\ resp.detail = "Account is temporarily locked"
    /\ resp.password_ok
    /\ \E u \in resp.user : hist[u].fails >= 5 /\ \E t \in hist[u].lock_at : now < t + 15

\* C3: right after a successful login the user's failed_login_attempts is 0
\* and locked_until is NULL.
C3_SuccessResetsLockout ==
    (resp.op = "login" /\ resp.status = 200)
    => \A u \in resp.user :
          /\ users[u].failed_login_attempts = 0
          /\ users[u].locked_until = Null

\* A login succeeded for an account that had failures counted and a lockout set.
C3_Witness ==
    /\ resp.op = "login"
    /\ resp.status = 200
    /\ resp.had_failures
    /\ resp.had_lock
    /\ \A u \in resp.user : users[u].failed_login_attempts = 0 /\ users[u].locked_until = Null

\* The session a request's token names, if any.
SessionOf(authorization) ==
    { sid \in DOMAIN sessions : sessions[sid].session_token \in authorization }

\* C4: no request is accepted as authenticated (by the middleware, by
\* GET /me or by POST /verify) with the token of a session whose expires_at
\* is not after the time of the request.
C4_ExpiredNeverAccepted ==
    ( \/ (resp.op = "request" /\ resp.handler_ran)
      \/ (resp.op = "me" /\ resp.status = 200)
      \/ (resp.op = "verify" /\ resp.valid) )
    => \A sid \in SessionOf(resp.authorization) : sessions[sid].expires_at > now

\* The middleware refused the token of a session that is expired but still active.
C4_Witness ==
    /\ resp.op = "request"
    /\ ~resp.handler_ran
    /\ resp.status = 401
    /\ \E sid \in SessionOf(resp.authorization) :
          sessions[sid].is_active /\ sessions[sid].expires_at <= now

\* C7 (as claimed): the middleware never lets a request through on the
\* session of a superuser whose account is inactive or locked at that time.
C7_SuperuserLockoutEnforced ==
    (resp.op = "request" /\ resp.handler_ran)
    => \A sid \in SessionOf(resp.authorization) :
          LET u == sessions[sid].user_id IN
          (u \in DOMAIN users /\ users[u].is_superuser)
          => (users[u].is_active /\ ~(\E t \in users[u].locked_until : t > now))

\* C8: a successful logout-all with a session of user U sets is_active to
\* FALSE on every session of U and changes no session of another user.
C8_LogoutAllFrame ==
    [][ (resp'.op = "logout_all" /\ resp'.status = 200)
        => \A caller \in SessionOf(resp'.authorization) :
              /\ DOMAIN sessions' = DOMAIN sessions
              /\ \A sid \in DOMAIN sessions :
                    sessions'[sid] =
                        IF sessions[sid].user_id = sessions[caller].user_id
                        THEN [sessions[sid] EXCEPT !.is_active = FALSE]
                        ELSE sessions[sid] ]_vars

\* After a logout-all the caller's session is revoked and a session of
\* another user is still active.
C8_Witness ==
    /\ resp.op = "logout_all"
    /\ resp.status = 200
    /\ \E caller \in SessionOf(resp.authorization), other \in DOMAIN sessions :
          /\ ~sessions[caller].is_active
          /\ sessions[other].user_id # sessions[caller].user_id
          /\ sessions[other].is_active

\* What the claims say of a request, stated on the tables.
NoToken(authorization) == authorization = Null \/ authorization = Some(0)
Protected(r) == ApiPath[r.path] /\ r.method # "OPTIONS" /\ ~PublicPath[r.path]
LiveSession(authorization) ==
    { sid \in SessionOf(authorization) : sessions[sid].is_active /\ sessions[sid].expires_at > now }
LiveUser(authorization) ==
    { sessions[sid].user_id : sid \in LiveSession(authorization) }
        \cap { u \in DOMAIN users : users[u].is_active }
ActiveRoleCodes(u) ==
    { c \in UNION { roles[r].permissions : r \in DOMAIN roles } :
        \E r \in users[u].roles : r \in DOMAIN roles /\ roles[r].is_active /\ c \in roles[r].permissions }

\* C1: a non-OPTIONS request to a non-public /api/ path reaches its handler
\* only with the token of an active, unexpired session whose user exists and
\* is active and who is a superuser, needs no permission code, or holds the
\* required code; otherwise the answer is 401, 403 or 500 and the handler does
\* not run, and a 403 is given only to a live session of an active user.
C1_GateFailsClosed ==
    (resp.op = "request" /\ Protected(resp))
    => LET who == LiveUser(resp.authorization)
           need == RequiredPermission[resp.path, resp.method]
           entitled == \E u \in who :
                          \/ need = Null
                          \/ users[u].is_superuser
                          \/ need \subseteq ActiveRoleCodes(u)
       IN  /\ resp.handler_ran => (entitled /\ resp.store_error = "none")
           /\ ~resp.handler_ran => resp.status \in {401, 403, 500}
           /\ ~entitled => ~resp.handler_ran
           /\ resp.store_error # "none" => ~resp.handler_ran
           /\ who = {} => resp.status \in {401, 500}
           /\ resp.status = 403 => (who # {} /\ ~entitled)

\* A query raised while a live session of an active, entitled user was being
\* resolved: the answer was 500 and the handler did not run.
C1_Witness ==
    /\ resp.op = "request"
    /\ Protected(resp)
    /\ resp.store_error # "none"
    /\ resp.status = 500
    /\ ~resp.handler_ran
    /\ \E u \in LiveUser(resp.authorization) :
          RequiredPermission[resp.path, resp.method] \subseteq ActiveRoleCodes(u)

\* The allow-list as the claim names it.
AllowListed(path) ==
    \E p \in { "/api/health", "/api/auth/login", "/api/auth/verify", "/api/auth/forgot-password",
               "/api/auth/reset-password", "/api/admin/bootstrap-owner" } : StartsWith(path, p)

\* C5 (as claimed): a request without a token is allowed iff its path is on
\* the public allow-list, and is answered 401 on any other /api/ path.
C5_TokenlessOnlyPublic ==
    (resp.op = "request" /\ NoToken(resp.authorization))
    => /\ resp.handler_ran <=> AllowListed(resp.path)
       /\ (ApiPath[resp.path] /\ ~AllowListed(resp.path))
            => (resp.status = 401 /\ ~resp.handler_ran)

\* C5 (amended): a non-OPTIONS request to an /api/ path without a token is
\* allowed iff its path begins with a public prefix, and is otherwise answered
\* 401 without reaching a handler; OPTIONS requests and paths outside /api/
\* are passed on whatever they carry.
C5_TokenlessApiOnlyPublic ==
    (resp.op = "request" /\ NoToken(resp.authorization))
    => /\ (ApiPath[resp.path] /\ resp.method # "OPTIONS")
            => /\ resp.handler_ran <=> AllowListed(resp.path)
               /\ ~AllowListed(resp.path) => (resp.status = 401 /\ ~resp.handler_ran)
       /\ (~ApiPath[resp.path] \/ resp.method = "OPTIONS") => resp.handler_ran

\* GET /api/products without a token was answered 401.
C5_Witness ==
    /\ resp.op = "request"
    /\ resp.authorization = Null
    /\ resp.method = "GET"
    /\ resp.path = "/api/products"
    /\ resp.status = 401
    /\ ~resp.handler_ran

\* The code the claim expects for the module routes requested.
ModulePaths == { "/api/products", "/api/customers", "/api/customers/7", "/api/invoices/3" }
ExpectedModule ==
    [path \in ModulePaths |->
        CASE path = "/api/products" -> "products"
          [] path = "/api/customers" -> "customers"
          [] path = "/api/customers/7" -> "customers"
          [] path = "/api/invoices/3" -> "invoicing"]
ExpectedAction ==
    [method \in {"GET", "POST", "PUT", "DELETE"} |->
        CASE method = "GET" -> "view"
          [] method = "POST" -> "create"
          [] method = "PUT" -> "update"
          [] method = "DELETE" -> "delete"]
ExpectedCode == [path \in ModulePaths, method \in {"GET", "POST", "PUT", "DELETE"} |->
                    ExpectedModule[path] \o "." \o ExpectedAction[method]]

\* C6: a GET/POST/PUT/DELETE request to a module route, made with a live
\* session of an active non-superuser while the store answers, is allowed iff
\* <module>.<action> is among the codes of the user's active roles, and is
\* otherwise answered 403 "Permission denied: <module>.<action>".
C6_ModulePermission ==
    ( /\ resp.op = "request"
      /\ resp.path \in ModulePaths
      /\ resp.method \in {"GET", "POST", "PUT", "DELETE"}
      /\ resp.store_error = "none" )
    => \A u \in LiveUser(resp.authorization) :
          ~users[u].is_superuser
          => LET code == ExpectedCode[resp.path, resp.method] IN
             /\ resp.handler_ran <=> code \in ActiveRoleCodes(u)
             /\ ~resp.handler_ran
                  => (resp.status = 403 /\ resp.detail = "Permission denied: " \o code)

\* alice, whose active role grants customers.view and customers.create and
\* whose inactive role holds customers.delete, was refused a DELETE.
C6_Witness ==
    /\ resp.op = "request"
    /\ resp.method = "DELETE"
    /\ resp.path = "/api/customers/7"
    /\ resp.status = 403
    /\ resp.detail = "Permission denied: customers.delete"
    /\ \E u \in LiveUser(resp.authorization) :
          /\ ActiveRoleCodes(u) = {"customers.view", "customers.create"}
          /\ \E r \in users[u].roles : ~roles[r].is_active /\ "customers.delete" \in roles[r].permissions

InvalidOrExpired(r) == r.status = 400 /\ r.detail = "Token is invalid or expired"
NeverIssued(token) == token > Len(reset_tokens)
Expired(token) == token \in DOMAIN reset_tokens /\ reset_tokens[token].expires_at <= now

C10_AtMostOneReset ==
    \A w1, w2 \in DOMAIN rp :
        ( /\ w1 # w2
          /\ rp[w1].token = rp[w2].token
          /\ rp[w1].pc = "done"
          /\ rp[w2].pc = "done" )
        => ~(rp[w1].status = 200 /\ rp[w2].status = 200)

\* The login requests answered for u, and those answered 401.
Answered(u) == { w \in DOMAIN lg : lg[w].user = {u} /\ lg[w].pc = "done" }
Failed(u) == { w \in Answered(u) : lg[w].status = 401 }

\* C11: when N login requests for an account have been answered 401 and no
\* other login request for it has been made, failed_login_attempts is N, and
\* the account is locked if N >= 5.
C11_FailuresCounted ==
    \A u \in Usernames :
        (\A w \in DOMAIN lg : lg[w].user = {u} => w \in Failed(u))
        => /\ users[u].failed_login_attempts = Cardinality(Failed(u))
           /\ Cardinality(Failed(u)) >= 5 => users[u].locked_until # Null

\* C12: a login attempt on an account whose locked_until is in the future is
\* answered 403 "Account is temporarily locked" and leaves the account's
\* failed_login_attempts, locked_until and last_login, and the sessions, as
\* they were, whether its password is correct or wrong.
C12_LockedLoginChangesNothing ==
    [][ \A u \in Usernames :
          ( /\ \E t \in users[u].locked_until : t > now
            /\ resp'.op = "login"
            /\ resp'.user = {u} )
          => ( /\ resp'.status = 403
               /\ resp'.detail = "Account is temporarily locked"
               /\ users'[u].failed_login_attempts = users[u].failed_login_attempts
               /\ users'[u].locked_until = users[u].locked_until
               /\ users'[u].last_login = users[u].last_login
               /\ sessions' = sessions ) ]_vars

\* A wrong password was refused because of the lockout, some minutes into
\* the cooldown, with the counter where the locking failure left it.
C12_Witness ==
    /\ resp.op = "login"
    /\ resp.status = 403
    /\ resp.detail = "Account is temporarily locked"
    /\ ~resp.password_ok
    /\ \E u \in resp.user :
          /\ users[u].failed_login_attempts = 5
          /\ \E t \in users[u].locked_until : now < t /\ now > t - 15

\* The mailbox an address written in any case, with or without surrounding
\* blanks, denotes.
Mailbox ==
    [e \in EmailInputs |->
        CASE e = "alice@localhost" -> "alice@localhost"
          [] e = " Alice@Localhost " -> "alice@localhost"
          [] e = "Alice@localhost" -> "alice@localhost"
          [] e = "owner@localhost" -> "owner@localhost"
          [] e = "nobody@localhost" -> "nobody@localhost"]
ActiveHolders(email) ==
    { u \in DOMAIN users : users[u].is_active /\ Mailbox[users[u].email] = Mailbox[email] }

C14_OneHashedToken ==
    [][ resp'.op = "forgot_password"
        => /\ ActiveHolders(resp'.email) # {}
                => /\ Len(reset_tokens') = Len(reset_tokens) + 1
                   /\ SubSeq(reset_tokens', 1, Len(reset_tokens)) = reset_tokens
                   /\ LET row == reset_tokens'[Len(reset_tokens')] IN
                      /\ DOMAIN row = {"user_id", "token_hash", "expires_at", "used_at"}
                      /\ row.user_id \in ActiveHolders(resp'.email)
                      /\ row.token_hash = <<"sha256", Len(reset_tokens')>>
                      /\ row.used_at = {}
                      /\ row.expires_at = now + 60
           /\ ActiveHolders(resp'.email) = {} => reset_tokens' = reset_tokens
           /\ users' = users
           /\ roles' = roles
           /\ sessions' = sessions ]_vars

\* C15: a reset-password request answered 200 leaves the user's password
\* verifying the new one, must_change_password false and the token's used_at =
\* now; a request answered otherwise, a store failure included, leaves both
\* the users and the reset tokens as they were.
C15_ResetAllOrNothing ==
    [][ resp'.op = "reset_password"
        => IF resp'.status = 200
           THEN \E i \in DOMAIN reset_tokens :
                  /\ reset_tokens[i].token_hash = <<"sha256", resp'.token>>
                  /\ reset_tokens'[i].used_at = {now}
                  /\ LET u == reset_tokens[i].user_id IN
                     /\ verify_password(resp'.new_password, users'[u].password_hash)
                     /\ ~users'[u].must_change_password
           ELSE users' = users /\ reset_tokens' = reset_tokens ]_vars

\* The commit of a reset failed for an account that must change its
\* password: the flag, the password and the token are as before.
C15_Witness ==
    /\ resp.op = "reset_password"
    /\ resp.store_error = "commit"
    /\ resp.status = 500
    /\ \E i \in DOMAIN reset_tokens :
          /\ reset_tokens[i].token_hash = <<"sha256", resp.token>>
          /\ reset_tokens[i].used_at = {}
          /\ users[reset_tokens[i].user_id].must_change_password
          /\ ~verify_password(resp.new_password, users[reset_tokens[i].user_id].password_hash)

\* C16: every login attempt, and every logout, logout-all and password change
\* that is carried out, adds exactly one audit row (the audit table working).
C16_OneAuditEntry ==
    ( /\ resp.op \in {"login", "logout", "logout_all", "change_password"}
      /\ "audit" \in DOMAIN resp
      /\ resp.audit_error = "none" )
    => Len(resp.audit) = 1

\* C17: when the audit row cannot be written, a login with the correct
\* password of an active, unlocked account still issues its session, and a
\* logout with the token of an active session still revokes it.
C17_AuditFailureSwallowed ==
    [][ /\ ( /\ resp'.op = "login"
             /\ "audit_error" \in DOMAIN resp'
             /\ resp'.audit_error # "none"
             /\ resp'.password_ok
             /\ \E u \in resp'.user : users[u].is_active /\ ~(\E t \in users[u].locked_until : t > now) )
           => ( /\ resp'.status = 200
                /\ Len(sessions') = Len(sessions) + 1 )
        /\ ( /\ resp'.op = "logout"
             /\ "audit_error" \in DOMAIN resp'
             /\ resp'.audit_error # "none" )
           => \A sid \in DOMAIN sessions :
                 sessions[sid].session_token \in resp'.authorization => ~sessions'[sid].is_active ]_vars

\* C18: whatever operation replaces a user's stored hash, the hash it stores
\* is in the modern (bcrypt) form.
C18_NeverStoresLegacy ==
    [][ \A u \in DOMAIN users :
          users'[u].password_hash # users[u].password_hash
          => is_bcrypt_hash(users'[u].password_hash) ]_vars

\* C19: a login of an active, unlocked user with the password that was set
\* for them, the hash stored in either form, is answered 200 with a session.
C19_LoginVerifiesBothForms ==
    [][ \A u \in DOMAIN users :
          ( /\ resp'.op = "login"
            /\ resp'.user = Some(u)
            /\ users[u].is_active
            /\ ~account_locked(users[u])
            /\ security_verify_password(resp'.password, users[u].password_hash) )
          => ( /\ resp'.status = 200
               /\ Len(sessions') = Len(sessions) + 1
               /\ sessions'[Len(sessions')].user_id = u ) ]_vars

\* C20: a successful login of a user whose stored hash was in the legacy form
\* leaves the stored hash in the modern form, verifying the same password.
C20_UpgradeOnLogin ==
    [][ \A u \in DOMAIN users :
          ( /\ resp'.op = "login"
            /\ resp'.user = Some(u)
            /\ resp'.status = 200
            /\ should_rehash_to_bcrypt(users[u].password_hash) )
          => ( /\ is_bcrypt_hash(users'[u].password_hash)
               /\ security_verify_password(resp'.password, users'[u].password_hash) ) ]_vars

\* C21: a stored hash verifies exactly the password it was made from:
\* verify(p, hash(p)) is true and verify(p, hash(p2)) is false for p # p2.
C21_HasherRoundTrip ==
    resp.op = "verify_password" => (resp.result <=> resp.password = resp.hashed)

\* C22: get_user_permissions gives a superuser the whole catalog whatever roles
\* are attached and a non-superuser without roles the empty set, and
\* check_permission(user, code) = is_superuser or code in get_user_permissions.
C22_Resolve ==
    resp.op = "check_permission"
    => /\ resp.is_superuser => resp.resolve = AllPermissions
       /\ (~resp.is_superuser /\ resp.roles = {}) => resp.resolve = {}
       /\ resp.result <=> (resp.is_superuser \/ resp.permission_code \in resp.resolve)

\* C22: a superuser with roles attached is checked and the whole catalog,
\* more than the roles hold, is resolved.
C22_Witness ==
    /\ resp.op = "check_permission"
    /\ resp.is_superuser
    /\ resp.roles # {}
    /\ resp.resolve = AllPermissions
    /\ resp.resolve # get_user_permissions_of_roles(users[resp.user])

\* C23: a request to a protected path with no Authorization header and the
\* token of a live session in the session cookie is answered as the same
\* request with that token in a bearer header would be.
C23_CookieFallback ==
    ( /\ resp.op = "request"
      /\ "cookies" \in DOMAIN resp
      /\ resp.authorization = Null
      /\ Protected(resp)
      /\ LiveSession(resp.cookies) # {} )
    => LET as_bearer == authz_middleware(resp.method, resp.path, resp.cookies, "none")
       IN  /\ resp.status = as_bearer.status
           /\ resp.handler_ran = as_bearer.allow

\* C24: a request that the middleware lets through on the strength of a
\* session leaves that session's last_activity at the time of the request.
C24_LastActivityUpdated ==
    [][ ( /\ resp'.op = "request"
          /\ Protected(resp')
          /\ resp'.handler_ran )
        => \A sid \in LiveSession(resp'.authorization) :
              sessions'[sid].last_activity = now' ]_vars

\* C25: revocation is idempotent and permanent.  Revoking a revoked session
\* changes nothing; a session that is not active stays so and its token is
\* not accepted; token, user_id and expires_at of a session never change.
C25_RevocationPermanent ==
    [][ /\ \A sid \in DOMAIN sessions :
             /\ sid \in DOMAIN sessions'
             /\ sessions'[sid].session_token = sessions[sid].session_token
             /\ sessions'[sid].user_id = sessions[sid].user_id
             /\ sessions'[sid].expires_at = sessions[sid].expires_at
             /\ ~sessions[sid].is_active => ~sessions'[sid].is_active
             /\ ( /\ ~sessions[sid].is_active
                  /\ resp'.op \in {"request", "me", "logout_all", "revoke_session", "change_password"}
                  /\ resp'.authorization = Some(sessions[sid].session_token)
                  /\ resp'.op = "request" => Protected(resp') )
                => resp'.status = 401
        /\ ( /\ resp'.op = "revoke_session"
             /\ resp'.status = 200
             /\ ~resp'.target_was_active )
           => UNCHANGED <<users, roles, sessions, reset_tokens, permissions, rate_vars>>
        /\ ( /\ resp'.op = "logout"
             /\ \E sid \in DOMAIN sessions :
                   /\ resp'.authorization = Some(sessions[sid].session_token)
                   /\ ~sessions[sid].is_active )
           => UNCHANGED <<users, roles, sessions, reset_tokens, permissions, rate_vars>> ]_vars

\* C25: a session already revoked is revoked again by another session of its user.
C25_Witness ==
    /\ resp.op = "revoke_session"
    /\ resp.status = 200
    /\ ~resp.target_was_active

\* C26: DELETE /sessions/{id} revokes a session of the caller's own user and
\* nothing else; for a session of another user it answers 404 and changes nothing.
C26_RevokeOwnOnly ==
    [][ ( /\ resp'.op = "revoke_session"
          /\ "session_id" \in DOMAIN resp'
          /\ resp'.session_id \in DOMAIN sessions )
        => IF sessions[resp'.session_id].user_id = resp'.caller
           THEN /\ resp'.status = 200
                /\ sessions' = [sessions EXCEPT ![resp'.session_id].is_active = FALSE]
                /\ UNCHANGED <<users, roles, reset_tokens, permissions, rate_vars>>
           ELSE /\ resp'.status = 404
                /\ UNCHANGED <<users, roles, sessions, reset_tokens, permissions, rate_vars>> ]_vars

\* C26: a caller asked for the session of another user and got 404.
C26_Witness ==
    /\ resp.op = "revoke_session"
    /\ resp.status = 404
    /\ resp.session_id \in DOMAIN sessions
    /\ sessions[resp.session_id].user_id # resp.caller
    /\ sessions[resp.session_id].is_active

C30_VerifyNeverFails ==
    resp.op = "verify"
    => /\ resp.status = 200
       /\ resp.valid <=> (resp.store_error = "none" /\ LiveSession(resp.authorization) # {})

\* C30: the token of a live session of a disabled user was verified as valid.
C30_Witness ==
    /\ resp.op = "verify"
    /\ resp.valid
    /\ \E sid \in LiveSession(resp.authorization) : ~users[sessions[sid].user_id].is_active

\* The codes and role names the seeding endpoints look for.
DefaultCodes == { default_permissions[i].code : i \in DOMAIN default_permissions }
DefaultRoleNames == { default_roles[i].name : i \in DOMAIN default_roles }
SeedingOps == {"bootstrap_owner", "init_permissions", "init_roles", "init_admin"}
NoSharedCode(table) ==
    \A i, j \in DOMAIN table : table[i].code = table[j].code => i = j

\* C27: seeding is idempotent.  Whatever the order and number of
\* bootstrap-owner, init-permissions, init-roles and init-admin calls, none of
\* them runs into a unique index (a second 'owner', a second role of a name, a
\* second permission of a code): each is answered 200 once past the gate, no
\* two permissions share a code, and an init-permissions or init-roles call
\* that finds its whole catalog present creates nothing and changes nothing.
C27_SeedingIdempotent ==
    [][ /\ NoSharedCode(permissions')
        /\ (resp'.op \in SeedingOps /\ resp'.status \notin {401, 403})
              => resp'.status = 200
        /\ (resp'.op = "init_permissions" /\ resp'.status = 200
              /\ DefaultCodes \subseteq AllPermissions)
              => (resp'.created = 0 /\ permissions' = permissions)
        /\ (resp'.op = "init_roles" /\ resp'.status = 200
              /\ DefaultRoleNames \subseteq DOMAIN roles)
              => (resp'.created = 0 /\ roles' = roles)
      ]_vars

\* C27 witness: every seeding endpoint has run (owner, admin, the eight roles
\* and the catalog exist) and a further init-permissions call reports nothing
\* created.
C27_Witness ==
    /\ resp.op = "init_permissions" /\ resp.status = 200 /\ resp.created = 0
    /\ {"owner", "admin"} \subseteq DOMAIN users
    /\ DefaultRoleNames \subseteq DOMAIN roles
    /\ DefaultCodes \subseteq AllPermissions

\* C28: after every bootstrap-owner call answered 200 (owner created, owner
\* existing with or without reset_password) an active role Administrator
\* holds every permission of the table, and the standard catalog is in it.
C28_BootstrapEnsuresAdministrator ==
    (resp.op = "bootstrap_owner" /\ resp.status = 200)
        => /\ "Administrator" \in DOMAIN roles
           /\ roles["Administrator"].is_active
           /\ AllPermissions \subseteq roles["Administrator"].permissions
           /\ DefaultCodes \subseteq AllPermissions

\* The answer to a login with an unknown username.
UnknownUserAnswer == [status |-> 401, detail |-> "Invalid credentials"]

\* C31: a failed login does not tell which factor failed.  A login with a
\* wrong password for a known, active, unlocked user is answered exactly as
\* a login with an unknown username is: 401 'Invalid credentials'.
C31_NoHint ==
    /\ (resp.op = "login" /\ resp.user = Null)
          => (resp.status = UnknownUserAnswer.status /\ resp.detail = UnknownUserAnswer.detail)
    /\ (resp.op = "login" /\ resp.user # Null /\ resp.status # 403 /\ ~resp.password_ok)
          => (resp.status = UnknownUserAnswer.status /\ resp.detail = UnknownUserAnswer.detail)

\* C32: lockout is temporary.  Once now >= locked_until, a login of an active
\* user with the correct password is answered 200, adds a session of that
\* user and leaves the account with no lockout and no failures counted; no
\* other request is needed in between.
C32_LockoutExpires ==
    [][ \A u \in Usernames :
          ( /\ u \in DOMAIN users
            /\ users[u].is_active
            /\ \E t \in users[u].locked_until : now >= t
            /\ resp'.op = "login"
            /\ resp'.user = {u}
            /\ resp'.password_ok )
          => ( /\ resp'.status = 200
               /\ Len(sessions') = Len(sessions) + 1
               /\ sessions'[Len(sessions')].user_id = u
               /\ sessions'[Len(sessions')].is_active
               /\ users'[u].locked_until = Null
               /\ users'[u].failed_login_attempts = 0 ) ]_vars

\* A locked account signed in at the very minute its lockout ran out.
C32_Witness ==
    /\ resp.op = "login"
    /\ resp.status = 200
    /\ resp.had_lock
    /\ now = LOCKOUT_MINUTES
    /\ \E u \in resp.user :
          /\ users[u].locked_until = Null
          /\ sessions[Len(sessions)].user_id = u
          /\ users[u].last_login = Some(now)

\* C33: every permission code the path/method mapping derives (a module of
\* MODULE_PREFIX_MAP with view, create, update or delete, or one of the four
\* administrative codes) is a code of the catalog initialize_permissions
\* seeds.
C33_DerivedCodesInCatalog ==
    resp.op = "required_permission" => resp.required \subseteq catalog_codes

\* C33 witness: DELETE below the prefix /api/invoices, whose module key is
\* "invoicing", and the derived code is in the catalog.
C33_Witness ==
    /\ resp.op = "required_permission"
    /\ resp.path = "/api/invoices/7"
    /\ resp.method = "DELETE"
    /\ resp.required = {"invoicing.delete"}
    /\ resp.required \subseteq catalog_codes

\* The user of the session issued with token t is inactive, or was deleted
\* (and the session with the user).
HolderGone(t) ==
    /\ t \in DOMAIN sessions
    /\ \/ sessions[t] = DeletedSession
       \/ sessions[t].user_id \notin DOMAIN users
       \/ ~users[sessions[t].user_id].is_active
\* The middleware lets a protected request with token t through (to a route
\* that needs no permission code).
GateAccepts(t) == authz_middleware("GET", "/api/stats", Some(t), "none").allow

\* C34 as stated: once the user of a session has been deactivated or deleted,
\* no protected request with that session's token is accepted any more: no
\* step takes such a session to a state in which the gate accepts its token.
C34_NeverAcceptedAgain ==
    [][ \A t \in 1..MaxSessions : HolderGone(t) => ~(GateAccepts(t))' ]_vars

\* C34: a protected request with the token of a session whose user is
\* inactive or deleted at the time of the request is answered 401 and does
\* not reach its handler, although the session was never revoked.
C34_InactiveUserRejected ==
    (resp.op = "request" /\ Protected(resp))
    => \A t \in resp.authorization :
          HolderGone(t) => (resp.status = 401 /\ ~resp.handler_ran)

\* C34 witness: the session is active and unexpired, its user was deactivated,
\* and the request with its token was answered 401.
C34_Witness ==
    /\ resp.op = "request"
    /\ Protected(resp)
    /\ resp.status = 401
    /\ resp.detail = "User not found or disabled"
    /\ \E t \in resp.authorization :
          /\ HolderGone(t)
          /\ sessions[t].is_active
          /\ sessions[t].expires_at > now
          /\ sessions[t].user_id = "alice"
          /\ "alice" \in DOMAIN users

\* The login just answered was one of user u.
LoginOf(u) == resp'.op = "login" /\ resp'.user = {u}

\* C35: a failed verification for an existing, active, unlocked user raises
\* failed_login_attempts by exactly 1 and sets locked_until to now + 15
\* minutes iff the new count is 5 or more (so a single failure after an
\* expired lockout locks again); nothing but a successful login lowers the
\* counter; and locked_until is set only with 5 or more failures counted.
C35_FailureCounter ==
    [][ \A u \in DOMAIN users \cap DOMAIN users' :
          /\ ( /\ LoginOf(u)
               /\ users[u].is_active
               /\ ~account_locked(users[u])
               /\ ~resp'.password_ok )
             => ( /\ users'[u].failed_login_attempts = users[u].failed_login_attempts + 1
                  /\ users'[u].locked_until =
                        IF users'[u].failed_login_attempts >= 5
                        THEN Some(now + 15) ELSE users[u].locked_until )
          /\ users'[u].failed_login_attempts < users[u].failed_login_attempts
             => ( /\ LoginOf(u)
                  /\ resp'.status = 200
                  /\ users'[u].failed_login_attempts = 0 )
          /\ users'[u].failed_login_attempts # users[u].failed_login_attempts => LoginOf(u)
          /\ users'[u].locked_until # Null => users'[u].failed_login_attempts >= 5
      ]_vars

\* C35 witness: after a lockout had run out, and after the password had been
\* set anew, one more failed login (the sixth counted) locked the account again.
C35_Witness ==
    /\ resp.op = "login"
    /\ resp.status = 401
    /\ resp.had_lock
    /\ \E u \in resp.user :
          /\ users[u].failed_login_attempts = 6
          /\ users[u].locked_until = Some(now + 15)
          /\ users[u].password_changed_at # Null

\* The codes an inactive role of u holds and no active role of u holds.
InactiveOnlyCodes(u) ==
    { c \in UNION { roles[r].permissions : r \in users[u].roles \cap DOMAIN roles } :
        \A r \in users[u].roles \cap DOMAIN roles : c \in roles[r].permissions => ~roles[r].is_active }

\* C36: for a user who is not a superuser, the permissions GET /me returns
\* include every code the middleware authorizes the user against, and the two
\* sets are equal exactly when no inactive role of the user holds a code that
\* no active role of the user holds.
C36_MeSupersetOfGate ==
    (resp.op = "me" /\ resp.status = 200 /\ ~users[resp.detail].is_superuser)
    => /\ gate_perm_set(resp.detail) \subseteq resp.permissions
       /\ (resp.permissions = gate_perm_set(resp.detail)) <=> (InactiveOnlyCodes(resp.detail) = {})

\* C36 witness: /me lists a code of an inactive role with which the
\* middleware would refuse the user.
C36_Witness ==
    /\ resp.op = "me"
    /\ resp.status = 200
    /\ ~users[resp.detail].is_superuser
    /\ "customers.delete" \in resp.permissions
    /\ "customers.delete" \notin gate_perm_set(resp.detail)
    /\ ~authz_middleware("DELETE", "/api/customers/7", resp.authorization, "none").allow

\* The paths of the administrative codes and of the module prefixes, as the
\* claim names them.
AdminOverride(path) ==
    \E p \in { "/api/admin/users", "/api/admin/roles", "/api/admin/permissions",
               "/api/admin/audit-logs", "/api/admin/settings" } : StartsWith(path, p)
ModulePrefixed(path) ==
    \E i \in DOMAIN MODULE_PREFIX_MAP : StartsWith(path, MODULE_PREFIX_MAP[i][1])

\* C37: a protected request made with a live session of an active user is let
\* through, whatever roles the user has or lacks, when its path matches neither
\* an administrative override nor a module prefix, and when its path is a
\* module path but its method is none of GET, POST, PUT, DELETE.
C37_NoCodeNoCheck ==
    ( /\ resp.op = "request"
      /\ Protected(resp)
      /\ resp.store_error = "none"
      /\ LiveUser(resp.authorization) # {}
      /\ \/ (~AdminOverride(resp.path) /\ ~ModulePrefixed(resp.path))
         \/ ( /\ ~AdminOverride(resp.path)
              /\ ModulePrefixed(resp.path)
              /\ resp.method \notin {"GET", "POST", "PUT", "DELETE"} ) )
    => (resp.handler_ran /\ RequiredPermission[resp.path, resp.method] = Null)

\* C37 witness: alice, an active user who is no superuser and has no role,
\* was let through to POST /api/admin/init-permissions.
C37_Witness ==
    /\ resp.op = "request"
    /\ resp.method = "POST"
    /\ resp.path = "/api/admin/init-permissions"
    /\ resp.handler_ran
    /\ LiveUser(resp.authorization) = {"alice"}
    /\ users["alice"].roles = {}
    /\ ~users["alice"].is_superuser

\* Reset token i can be redeemed: unused, unexpired, its user active.
Redeemable(i) ==
    /\ i \in DOMAIN reset_tokens
    /\ reset_tokens[i].used_at = Null
    /\ reset_tokens[i].expires_at > now
    /\ reset_tokens[i].user_id \in DOMAIN users
    /\ users[reset_tokens[i].user_id].is_active
    /\ reset_checks(i, "password2").allow

\* C38: the reset tokens of a user are independent.  A token that can be
\* redeemed can still be redeemed, and its row is as it was, after the
\* redemption of another token, a change of password and a login; the only
\* step that uses it up is its own redemption.  A password reset and a
\* password change leave the sessions as they were.
C38_TokensIndependent ==
    [][ /\ \A i \in 1..MaxResetTokens :
              ( /\ Redeemable(i)
                /\ ~(resp'.op = "reset_password" /\ resp'.token = i /\ resp'.status = 200) )
              => (Redeemable(i)' /\ reset_tokens'[i] = reset_tokens[i])
        /\ resp'.op \in {"reset_password", "change_password"} => sessions' = sessions
      ]_vars

\* C38 witness: one token of the owner was redeemed while another token of
\* the owner stayed redeemable and a session of the owner stayed active.
C38_Witness ==
    /\ resp.op = "reset_password"
    /\ resp.status = 200
    /\ \E j \in DOMAIN reset_tokens :
          /\ j # resp.token
          /\ Redeemable(j)
          /\ reset_tokens[j].user_id = reset_tokens[resp.token].user_id
          /\ \E sid \in DOMAIN sessions :
                /\ sessions[sid].user_id = reset_tokens[j].user_id
                /\ sessions[sid].is_active

----------------------------------------------------------------------------
\* The calls of check_rate_limit for a key that returned True.
Admitted(key) ==
    { w \in DOMAIN rl : rl[w].key = key /\ rl[w].pc = "done" /\ rl[w].result }

\* The calls that returned False.
RateRefused == { w \in DOMAIN rl : rl[w].pc = "done" /\ ~rl[w].result }

\* No two calls overlapped: each one started after the others had returned.
Sequential == \A w \in DOMAIN rl : rl[w].alone

\* The calls for the key of call w admitted up to w with a timestamp inside
\* the window of w: later than now - window_seconds.
AdmittedInWindow(w) ==
    { v \in Admitted(rl[w].key) : v <= w /\ rl[v].now > rl[w].now - window_seconds }

\* The bound and the bookkeeping of check_rate_limit in a state.
RateBound ==
    /\ Sequential =>
          /\ \A w \in DOMAIN rl :
                w \in Admitted(rl[w].key) => Cardinality(AdmittedInWindow(w)) <= max_requests
          /\ \A w \in RateRefused : Cardinality(AdmittedInWindow(w)) = max_requests
    /\ \A key \in RateKeys : Len(_rate_limit_store[key]) <= Cardinality(Admitted(key))

\* C39: with calls made one after another, check_rate_limit admits at most
\* max_requests calls of a key in any window (timestamps later than
\* now - window_seconds), and refuses a call only when max_requests calls of
\* that same key were admitted in its window.  The list of a key never holds
\* more timestamps than calls of the key were admitted, so a refused call is
\* not recorded, and a step of a call changes only the list of its own key.
C39_RateLimit ==
    [][ /\ RateBound'
        /\ \A key \in RateKeys :
              _rate_limit_store'[key] # _rate_limit_store[key]
              => \E w \in DOMAIN rl : rl[w].key = key /\ rl'[w].pc # rl[w].pc
      ]_vars

\* C39 witness: calls made one after another for one key; max_requests were
\* admitted and the next one in the same window was refused and left the
\* list as it was, while the list of the other key stayed empty.
C39_Witness ==
    /\ Sequential
    /\ \E w \in RateRefused :
          /\ Cardinality(AdmittedInWindow(w)) = max_requests
          /\ _rate_limit_store[CHOOSE key \in RateKeys : key # rl[w].key] = << >>
          /\ Len(_rate_limit_store[rl[w].key]) = max_requests

\* Calls that overlap: more than max_requests calls of one key with
\* timestamps in one window were all admitted, the check and the append of
\* one call being separated by those of another.
RaceAdmitsMore ==
    \E key \in RateKeys :
        /\ Cardinality(Admitted(key)) > max_requests
        /\ \A v, w \in Admitted(key) : rl[v].now > rl[w].now - window_seconds
        /\ Len(_rate_limit_store[key]) > max_requests

====
